---- MODULE Spec2Model ----
(***************************************************************************)
(* A model of the text-to-SQL question answering service: the /ask route   *)
(* handlers (response-cache variant and session variant), the SQL          *)
(* generator, the query executor, the result summarizer and the question   *)
(* rewriter.  Strings are sequences of one-character strings, so that the  *)
(* trimming, case folding and pattern tests of the code are computed.      *)
(***************************************************************************)
EXTENDS Integers, Sequences, FiniteSets, TLC

VARIABLES
    eq,         \* executeQuery calls in flight, by caller
    poolPromise,\* dbService: "null" | "pending" | "resolved"
    isConnected,\* dbService: the module flag
    stalePools, \* dbService: a pool that lost its place still listens for 'error'
    dbLog,      \* the statements handed to request.query, in order
    config,     \* the configuration record of the process
    gen,        \* generateSql calls in flight, by caller
    an,         \* generateAnalysis calls in flight, by caller
    rw,         \* createStandaloneQuestion calls in flight, by caller
    rag,        \* retrieveRelevantSchemas calls in flight, by caller
    collection, \* ragService: the collection handle, or "null"
    ragIsConnected, \* ragService: its isConnected flag
    req,        \* the route handler's run for each request in flight
    cache,      \* routes/ask.js: the response cache, entries by key
    sessionCache, \* the session route: stored histories by key
    served,     \* the number of requests that have arrived
    written     \* by cache key: the response of the run that stored the entry

execVars == <<eq, poolPromise, isConnected, stalePools, dbLog>>
ragVars == <<rag, collection, ragIsConnected>>
routeVars == <<req, cache, sessionCache, served, written>>
vars == <<eq, poolPromise, isConnected, stalePools, dbLog, config, gen, an, rw,
          rag, collection, ragIsConnected, req, cache, sessionCache, served,
          written>>

----------------------------------------------------------------------------
(* Strings *)

LowerChars == <<"a","b","c","d","e","f","g","h","i","j","k","l","m",
                "n","o","p","q","r","s","t","u","v","w","x","y","z">>
UpperChars == <<"A","B","C","D","E","F","G","H","I","J","K","L","M",
                "N","O","P","Q","R","S","T","U","V","W","X","Y","Z">>

UpperOf ==
    [c \in {LowerChars[i] : i \in 1..Len(LowerChars)} |->
        UpperChars[CHOOSE i \in 1..Len(LowerChars) : LowerChars[i] = c]]
LowerOf ==
    [c \in {UpperChars[i] : i \in 1..Len(UpperChars)} |->
        LowerChars[CHOOSE i \in 1..Len(UpperChars) : UpperChars[i] = c]]

toUpperCaseChar(c) == IF c \in DOMAIN UpperOf THEN UpperOf[c] ELSE c
toLowerCaseChar(c) == IF c \in DOMAIN LowerOf THEN LowerOf[c] ELSE c

toUpperCase(s) == [i \in 1..Len(s) |-> toUpperCaseChar(s[i])]
toLowerCase(s) == [i \in 1..Len(s) |-> toLowerCaseChar(s[i])]

\* the characters \s and String.prototype.trim treat as white space
IsSpace(c) == c \in {" ", "\n", "\t", "\r"}
\* the characters [^\r\n] excludes and at which $ matches under the m flag
IsLineTerminator(c) == c \in {"\n", "\r"}

SetMin(S) == CHOOSE x \in S : \A y \in S : x <= y
SetMax(S) == CHOOSE x \in S : \A y \in S : x >= y

trim(s) ==
    LET keep == {i \in 1..Len(s) : ~IsSpace(s[i])}
    IN  IF keep = {} THEN <<>> ELSE SubSeq(s, SetMin(keep), SetMax(keep))

\* s has p at position i
MatchAt(s, i, p) ==
    /\ i >= 1
    /\ i + Len(p) - 1 <= Len(s)
    /\ \A k \in 1..Len(p) : s[i + k - 1] = p[k]

\* the same, under the i flag
MatchAtIgnoreCase(s, i, p) ==
    /\ i >= 1
    /\ i + Len(p) - 1 <= Len(s)
    /\ \A k \in 1..Len(p) : toUpperCaseChar(s[i + k - 1]) = toUpperCaseChar(p[k])

startsWith(s, p) == MatchAt(s, 1, p)
endsWith(s, p) == MatchAt(s, Len(s) - Len(p) + 1, p)
includes(s, p) == \E i \in 1..Len(s) : MatchAt(s, i, p)
includesIgnoreCase(s, p) == \E i \in 1..Len(s) : MatchAtIgnoreCase(s, i, p)

RECURSIVE Concat(_)
Concat(parts) ==
    IF parts = <<>> THEN <<>> ELSE Head(parts) \o Concat(Tail(parts))

\* n copies of the string s
RECURSIVE Repeat(_, _)
Repeat(s, n) == IF n <= 0 THEN <<>> ELSE s \o Repeat(s, n - 1)

----------------------------------------------------------------------------
(* Words of SQL *)

kwSELECT   == <<"S","E","L","E","C","T">>
kwDROP     == <<"D","R","O","P">>
kwDELETE   == <<"D","E","L","E","T","E">>
kwUPDATE   == <<"U","P","D","A","T","E">>
kwINSERT   == <<"I","N","S","E","R","T">>
kwALTER    == <<"A","L","T","E","R">>
kwCREATE   == <<"C","R","E","A","T","E">>
kwTRUNCATE == <<"T","R","U","N","C","A","T","E">>
kwEXEC     == <<"E","X","E","C">>
kwEXECUTE  == <<"E","X","E","C","U","T","E">>
xp_cmdshell   == <<"x","p","_","c","m","d","s","h","e","l","l">>
sp_executesql == <<"s","p","_","e","x","e","c","u","t","e","s","q","l">>

\* the alternation of the first dangerous pattern
MutatingKeywords ==
    {kwDROP, kwDELETE, kwUPDATE, kwINSERT, kwALTER, kwCREATE, kwTRUNCATE,
     kwEXEC, kwEXECUTE}

----------------------------------------------------------------------------
(* dbService.executeQuery: the validation gate *)

\* the first pattern without its i flag
SeparatorThenMutating_CaseSensitive(q) ==
    \E i \in 1..Len(q) :
        /\ q[i] = ";"
        /\ \E j \in (i + 1)..Len(q) :
              /\ \A k \in (i + 1)..(j - 1) : IsSpace(q[k])
              /\ \E kw \in MutatingKeywords : MatchAt(q, j, kw)

\* /;\s*(DROP|DELETE|UPDATE|INSERT|ALTER|CREATE|TRUNCATE|EXEC|EXECUTE)/i
SeparatorThenMutating(q) ==
    \E i \in 1..Len(q) :
        /\ q[i] = ";"
        /\ \E j \in (i + 1)..Len(q) :
              /\ \A k \in (i + 1)..(j - 1) : IsSpace(q[k])
              /\ \E kw \in MutatingKeywords : MatchAtIgnoreCase(q, j, kw)

\* /--[^\r\n]*$/m
LineComment(q) ==
    \E i \in 1..Len(q) :
        /\ MatchAt(q, i, <<"-", "-">>)
        /\ \E j \in (i + 2)..(Len(q) + 1) :
              /\ \A k \in (i + 2)..(j - 1) : ~IsLineTerminator(q[k])
              /\ (j = Len(q) + 1 \/ IsLineTerminator(q[j]))

\* /\/\*[\s\S]*?\*\//
BlockComment(q) ==
    \E i \in 1..Len(q) :
        /\ MatchAt(q, i, <<"/", "*">>)
        /\ \E j \in (i + 2)..Len(q) : MatchAt(q, j, <<"*", "/">>)

hasDangerousPattern(q) ==
    \/ SeparatorThenMutating(q)
    \/ includesIgnoreCase(q, xp_cmdshell)
    \/ includesIgnoreCase(q, sp_executesql)
    \/ LineComment(q)
    \/ BlockComment(q)

\* the gate without its pattern test
ValidateQuery_NoPatternTest(q) ==
    IF trim(q) = <<>> THEN "SQL query cannot be empty"
    ELSE IF ~startsWith(toUpperCase(trim(q)), kwSELECT)
         THEN "only SELECT queries are allowed"
    ELSE "ok"

\* the error the gate throws for q, or "ok"
ValidateQuery(q) ==
    IF trim(q) = <<>> THEN "SQL query cannot be empty"
    ELSE IF ~startsWith(toUpperCase(trim(q)), kwSELECT)
         THEN "only SELECT queries are allowed"
    ELSE IF hasDangerousPattern(q)
         THEN "Query contains potentially unsafe patterns"
    ELSE "ok"

----------------------------------------------------------------------------
(* Result sets *)

MaxDbRows == 3      \* rows a modelled query returns at most
MaxCols == 2        \* columns of a modelled row at most

ColumnNames == <<"c1", "c2", "c3">>
Columns(k) == {ColumnNames[j] : j \in 1..k}

\* A cell is a scalar, held by its type, its rendering as a string (String(v),
\* the text a template literal inserts) and the length of that rendering.
NumberCell(i) == [type |-> "number", text |-> ToString(i), chars |-> Len(ToString(i))]
\* a string of w characters, none of which JSON escapes
StringCell(w) == [type |-> "string", text |-> "text", chars |-> w]

\* row i of k number columns: its cells differ from every other row's
Row(i, k) == [col \in Columns(k) |-> NumberCell(i)]
RowSet(n, k) == [i \in 1..n |-> Row(i, k)]
\* n rows of k string columns of w characters each
WideRowSet(n, k, w) == [i \in 1..n |-> [col \in Columns(k) |-> StringCell(w)]]
DbResults == {RowSet(n, k) : n \in 0..MaxDbRows, k \in 1..MaxCols}

\* what the driver can throw: err.code, err.number, err.message
DriverErrors ==
    {[code |-> "ETIMEOUT",   number |-> 0,   message |-> "raw timeout"],
     [code |-> "ELOGIN",     number |-> 0,   message |-> "raw login"],
     [code |-> "ECONNRESET", number |-> 0,   message |-> "raw reset"],
     [code |-> "EREQUEST",   number |-> 2,   message |-> "raw unreachable"],
     [code |-> "EREQUEST",   number |-> 207, message |-> "raw column"],
     [code |-> "EREQUEST",   number |-> 208, message |-> "raw table"],
     [code |-> "EREQUEST",   number |-> 102, message |-> "raw syntax"]}

\* the catch block of executeQuery: the message of the error it throws
userFriendlyMessage(err) ==
    IF err.code = "ETIMEOUT" THEN "Query execution timed out. Please try a simpler query."
    ELSE IF err.code = "ELOGIN" THEN "Database authentication failed."
    ELSE IF err.code = "ECONNRESET" THEN "Database connection was reset. Please try again."
    ELSE IF err.number = 2 THEN "Database server is not accessible."
    ELSE IF err.number = 207 THEN "Invalid column name in the generated query."
    ELSE IF err.number = 208 THEN "Invalid table name in the generated query."
    ELSE "Error executing database query."

ExecutionError(err) ==
    <<userFriendlyMessage(err), " Technical details: ", err.message>>

ConnectError == [code |-> "ESOCKET", number |-> 0, message |-> "raw connect"]

----------------------------------------------------------------------------
(* dbService.executeQuery, step by step *)

\* the requests in flight: each is the caller of the service calls it awaits
Requests == {"r1", "r2"}

NoResult == [kind |-> "none"]
\* attempts: the times the call has entered its try block
IdleCall ==
    [pc |-> "idle", query |-> <<>>, askedPool |-> FALSE, attempts |-> 0, result |-> NoResult]
NewCall(q) == [IdleCall EXCEPT !.pc = "start", !.query = q]

\* getPool(), the synchronous part: the stored promise, or a new connect attempt
getPool == IF poolPromise = "null" THEN "pending" ELSE poolPromise

\* The call runs to its first await: the gate throws, or getPool() is awaited.
EqValidate(c) ==
    /\ eq[c].pc = "start"
    /\ LET verdict == ValidateQuery(eq[c].query)
       IN  IF verdict # "ok"
           THEN /\ eq' = [eq EXCEPT ![c].pc = "done",
                                    ![c].result = [kind |-> "rejected", error |-> verdict]]
                /\ UNCHANGED poolPromise
           ELSE /\ eq' = [eq EXCEPT ![c].pc = IF getPool = "resolved" THEN "havePool"
                                                                     ELSE "awaitPool",
                                    ![c].askedPool = TRUE,
                                    ![c].attempts = @ + 1]
                /\ poolPromise' = getPool
    /\ UNCHANGED <<isConnected, stalePools, dbLog, config, gen, an, rw, ragVars, routeVars>>

\* .connect() resolves: the .then callback, and every waiter is resumed
ConnectSucceeds ==
    /\ poolPromise = "pending"
    /\ poolPromise' = "resolved"
    /\ isConnected' = TRUE
    /\ eq' = [c \in Requests |->
                IF eq[c].pc = "awaitPool" THEN [eq[c] EXCEPT !.pc = "havePool"] ELSE eq[c]]
    /\ UNCHANGED <<stalePools, dbLog, config, gen, an, rw, ragVars, routeVars>>

\* .connect() rejects and the .catch callback leaves the rejected promise stored
ConnectFails_Memoized ==
    /\ poolPromise = "pending"
    /\ poolPromise' = "rejected"
    /\ isConnected' = FALSE
    /\ eq' = [c \in Requests |->
                IF eq[c].pc = "awaitPool"
                THEN [eq[c] EXCEPT !.pc = "done",
                                   !.result = [kind |-> "failed",
                                               error |-> ExecutionError(ConnectError)]]
                ELSE eq[c]]
    /\ UNCHANGED <<stalePools, dbLog, config, gen, an, rw, ragVars, routeVars>>

\* .connect() rejects: the .catch callback clears the promise, every waiter throws
ConnectFails ==
    /\ poolPromise = "pending"
    /\ poolPromise' = "null"
    /\ isConnected' = FALSE
    /\ eq' = [c \in Requests |->
                IF eq[c].pc = "awaitPool"
                THEN [eq[c] EXCEPT !.pc = "done",
                                   !.result = [kind |-> "failed",
                                               error |-> ExecutionError(ConnectError)]]
                ELSE eq[c]]
    /\ UNCHANGED <<stalePools, dbLog, config, gen, an, rw, ragVars, routeVars>>

\* the 'error' event of the pool the stored promise resolved to: the pool is
\* not closed, so it and its listener live on
PoolError ==
    /\ poolPromise = "resolved"
    /\ isConnected
    /\ poolPromise' = "null"
    /\ isConnected' = FALSE
    /\ stalePools' = TRUE
    /\ UNCHANGED <<eq, dbLog, config, gen, an, rw, ragVars, routeVars>>

\* lines 272-276, the listener of a pool that has lost its place: it clears
\* whatever promise is stored now. A connect attempt that is pending goes on
\* without being stored (its waiters: "awaitLost"); one such attempt is followed.
StalePoolError ==
    /\ stalePools
    /\ poolPromise # "null"
    /\ \A c \in Requests : eq[c].pc # "awaitLost"
    /\ poolPromise' = "null"
    /\ isConnected' = FALSE
    /\ eq' = [c \in Requests |->
                IF poolPromise = "pending" /\ eq[c].pc = "awaitPool"
                THEN [eq[c] EXCEPT !.pc = "awaitLost"] ELSE eq[c]]
    /\ UNCHANGED <<stalePools, dbLog, config, gen, an, rw, ragVars, routeVars>>

\* lines 263-278 for the attempt that is no longer stored: its .then callback
\* sets the flag and resumes its waiters; the stored promise is not assigned
LostConnectSucceeds ==
    /\ \E c \in Requests : eq[c].pc = "awaitLost"
    /\ isConnected' = TRUE
    /\ stalePools' = TRUE
    /\ eq' = [c \in Requests |->
                IF eq[c].pc = "awaitLost" THEN [eq[c] EXCEPT !.pc = "havePool"] ELSE eq[c]]
    /\ UNCHANGED <<poolPromise, dbLog, config, gen, an, rw, ragVars, routeVars>>

\* lines 280-289 for the attempt that is no longer stored: its .catch callback
\* clears the promise stored now, which is another attempt's, and its waiters
\* throw. A newer attempt that was pending goes on without being stored.
LostConnectFails ==
    /\ \E c \in Requests : eq[c].pc = "awaitLost"
    /\ poolPromise' = "null"
    /\ isConnected' = FALSE
    /\ stalePools' = (stalePools \/ poolPromise = "resolved")
    /\ eq' = [c \in Requests |->
                IF eq[c].pc = "awaitLost"
                THEN [eq[c] EXCEPT !.pc = "done",
                                   !.result = [kind |-> "failed",
                                               error |-> ExecutionError(ConnectError)]]
                ELSE IF poolPromise = "pending" /\ eq[c].pc = "awaitPool"
                THEN [eq[c] EXCEPT !.pc = "awaitLost"]
                ELSE eq[c]]
    /\ UNCHANGED <<dbLog, config, gen, an, rw, ragVars, routeVars>>

\* pool.request().query(query)
EqSend(c) ==
    /\ eq[c].pc = "havePool"
    /\ dbLog' = Append(dbLog, eq[c].query)
    /\ eq' = [eq EXCEPT ![c].pc = "query"]
    /\ UNCHANGED <<poolPromise, isConnected, stalePools, config, gen, an, rw, ragVars, routeVars>>

\* the statement returns its recordset
EqReturns(c, rows) ==
    /\ eq[c].pc = "query"
    /\ eq' = [eq EXCEPT ![c].pc = "done",
                        ![c].result = [kind |-> "rows", rows |-> rows]]
    /\ UNCHANGED <<poolPromise, isConnected, stalePools, dbLog, config, gen, an, rw, ragVars, routeVars>>

\* the statement fails in the driver: the catch block rethrows
EqThrows(c, err) ==
    /\ eq[c].pc = "query"
    /\ eq' = [eq EXCEPT ![c].pc = "done",
                        ![c].result = [kind |-> "failed", error |-> ExecutionError(err)]]
    /\ UNCHANGED <<poolPromise, isConnected, stalePools, dbLog, config, gen, an, rw, ragVars, routeVars>>

----------------------------------------------------------------------------
(* Inputs of executeQuery: statements assembled from words *)

MaxGap == 2         \* white space characters between a separator and the next word

lower(s) == toLowerCase(s)

QueryHeads ==
    {<<>>, kwSELECT \o <<" ", "1">>, <<" ">> \o lower(kwSELECT) \o <<" ", "1">>,
     kwDROP \o <<" ", "t">>}
QuerySeparators == {<<>>, <<";">>}
QueryGaps ==
    {Repeat(<<w>>, n) : w \in {" ", "\n"}, n \in 0..MaxGap} \cup {<<" ", "x", " ">>}
QueryWords ==
    MutatingKeywords \cup {lower(kw) : kw \in MutatingKeywords}
    \cup {<<>>, kwSELECT, xp_cmdshell, toUpperCase(sp_executesql), <<"-", "-">>, <<"/", "*">>}
QueryTails == {<<>>, <<" ", "t">>, <<"*", "/">>, <<"\n", "1">>}

QueryParts ==
    [head : QueryHeads, sep : QuerySeparators, gap : QueryGaps,
     word : QueryWords, tail : QueryTails]
BuildQuery(p) == p.head \o p.sep \o p.gap \o p.word \o p.tail
QueryInputs == {BuildQuery(p) : p \in QueryParts}

----------------------------------------------------------------------------
(* Configuration: src/config/index.js *)

MaxConfigRetries == 4   \* GEMINI_MAX_RETRIES is drawn from 1..MaxConfigRetries
MaxRowCap == 2          \* the smaller of the two values of MAX_RESULT_ROWS

DefaultConfig ==
    [maxRetries |-> 3, retryDelay |-> 1000, maxResultRows |-> 1000, maxKeys |-> 1000,
     maxQueryLength |-> 500, nodeEnv |-> "undefined"]
Configs ==
    [maxRetries : 1..MaxConfigRetries, retryDelay : {1000}, maxResultRows : {1000},
     maxKeys : {1000}, maxQueryLength : {500},
     nodeEnv : {"undefined"}]

----------------------------------------------------------------------------
(* geminiService.generateSql *)

\* the grave accent (U+0060), which a TLA+ string cannot hold, as an atom of its own
backtick == "GRAVE"
fence == <<backtick, backtick, backtick>>
fenceSql == fence \o <<"s", "q", "l">>
CANNOT_ANSWER == <<"C","A","N","N","O","T","_","A","N","S","W","E","R">>

\* String.prototype.replace with a global literal pattern and '' : the leftmost
\* matches, none overlapping, are removed
RECURSIVE RemoveAllFrom(_, _, _, _)
RemoveAllFrom(s, i, p, ignoreCase) ==
    IF i > Len(s) THEN <<>>
    ELSE IF (IF ignoreCase THEN MatchAtIgnoreCase(s, i, p) ELSE MatchAt(s, i, p))
         THEN RemoveAllFrom(s, i + Len(p), p, ignoreCase)
         ELSE <<s[i]>> \o RemoveAllFrom(s, i + 1, p, ignoreCase)

\* the number of leading white space characters of s from position i on
RECURSIVE SpacesFrom(_, _)
SpacesFrom(s, i) ==
    IF i <= Len(s) /\ IsSpace(s[i]) THEN 1 + SpacesFrom(s, i + 1) ELSE 0

\* .replace(/^\s*sql\s*/i, '')
RemoveLeadingSqlTag(s) ==
    LET a == SpacesFrom(s, 1)
    IN  IF MatchAtIgnoreCase(s, a + 1, <<"s", "q", "l">>)
        THEN SubSeq(s, a + 4 + SpacesFrom(s, a + 4), Len(s))
        ELSE s

\* line 55 without its second replace
StripFences_SqlFenceOnly(text) ==
    trim(RemoveLeadingSqlTag(RemoveAllFrom(text, 1, fenceSql, TRUE)))

\* line 55: the fences and the language tag are removed, the rest trimmed
StripFences(text) ==
    trim(RemoveLeadingSqlTag(
        RemoveAllFrom(RemoveAllFrom(text, 1, fenceSql, TRUE), 1, fence, FALSE)))

substring(s, from, to) == SubSeq(s, from + 1, IF to < Len(s) THEN to ELSE Len(s))

\* lines 60-62 when the terminator is appended whatever the text ends with
Terminate_Always(sqlQuery) == sqlQuery \o <<";">>

\* lines 60-62
Terminate(sqlQuery) ==
    IF endsWith(sqlQuery, <<";">>) THEN sqlQuery ELSE sqlQuery \o <<";">>

\* lines 48-65 for one model output: the query returned, or the error thrown
ProcessModelText(text) ==
    LET sqlQuery == trim(text)
        cleaned == StripFences(sqlQuery)
    IN  IF toUpperCase(sqlQuery) = CANNOT_ANSWER
        THEN [kind |-> "error", cleaned |-> sqlQuery,
              message |-> <<"This question cannot be answered using the available database schema.">>]
        ELSE IF ~startsWith(toUpperCase(cleaned), kwSELECT)
        THEN [kind |-> "error", cleaned |-> cleaned,
              message |-> <<"Generated query is not a SELECT statement: ",
                            substring(cleaned, 0, 100)>>]
        ELSE [kind |-> "ok", cleaned |-> cleaned, sqlQuery |-> Terminate(cleaned)]

\* what the race of generateContent and the timer rejects with
TransportErrors == {<<"SQL generation timeout">>, <<"fetch failed">>}

NoError == [message |-> <<"undefined">>]

\* LIMITS.MAX_SCHEMA_LENGTH
MAX_SCHEMA_LENGTH == 10000
TruncatedMarker == <<"\n", ".", ".", ".", " ", "(", "t", "r", "u", "n", "c", "a", "t", "e", "d", ")">>

\* lines 24-28 as written without the marker
limitSchema_NoMarker(schemaContext) ==
    IF Len(schemaContext) > MAX_SCHEMA_LENGTH
    THEN substring(schemaContext, 0, MAX_SCHEMA_LENGTH)
    ELSE schemaContext

\* lines 24-28: the schema context generateSql goes on with
limitSchema(schemaContext) ==
    IF Len(schemaContext) > MAX_SCHEMA_LENGTH
    THEN substring(schemaContext, 0, MAX_SCHEMA_LENGTH) \o TruncatedMarker
    ELSE schemaContext

\* lines 35-36: the two holes of the prompt, createSqlGenerationPrompt's
\* schemaContext and the quoted user question
NoSqlPrompt == [schemaContext |-> <<>>, question |-> <<>>]
fullPrompt(schemaContext, question) ==
    [schemaContext |-> schemaContext, question |-> question]

IdleGen ==
    [pc |-> "idle", question |-> <<>>, schemaContext |-> <<>>, prompt |-> NoSqlPrompt,
     attempt |-> 0, lastError |-> NoError, calls |-> 0,
     text |-> <<>>, cleaned |-> <<>>, delays |-> <<>>, errors |-> <<>>,
     result |-> NoResult]
\* lines 21-32: the arguments, the limited schema context, and the loop is
\* entered: attempt = 1
NewGen(question, schemaContext) ==
    [IdleGen EXCEPT !.pc = "attempt", !.attempt = 1, !.question = question,
                    !.schemaContext = limitSchema(schemaContext)]

\* the loop condition of line 32 as written without the "="
LoopContinues_Exclusive(attempt) == attempt < config.maxRetries

\* the loop condition of line 32
LoopContinues(attempt) == attempt <= config.maxRetries

\* line 75: the loop has ended without a return
GenExhausted(r) ==
    [kind |-> "failed",
     error |-> <<"Failed to generate SQL query after ", config.maxRetries,
                 " attempts. Last error: ", gen[r].lastError.message>>]

\* In gen, text and cleaned record the last model output and its cleaned form,
\* errors the error caught in each failed attempt, delays the waits of line 71.

\* lines 32-46: the loop test, then generateContent is called and awaited
GenAttempt(r) ==
    /\ gen[r].pc = "attempt"
    /\ IF LoopContinues(gen[r].attempt)
       THEN gen' = [gen EXCEPT ![r].pc = "awaiting", ![r].calls = @ + 1,
                               ![r].prompt = fullPrompt(gen[r].schemaContext,
                                                        gen[r].question)]
       ELSE gen' = [gen EXCEPT ![r].pc = "done", ![r].result = GenExhausted(r)]
    /\ UNCHANGED <<execVars, config, an, rw, ragVars, routeVars>>

\* lines 67-73: the catch block, with the wait before the next attempt
GenCatch(r, error) ==
    [gen[r] EXCEPT !.lastError = error,
                   !.errors = Append(@, error),
                   !.pc = IF gen[r].attempt < config.maxRetries THEN "backoff" ELSE "next",
                   !.delays = IF gen[r].attempt < config.maxRetries
                              THEN Append(@, config.retryDelay * gen[r].attempt) ELSE @]

\* lines 48-65: the model answered in time
GenModelReturns(r, text) ==
    /\ gen[r].pc = "awaiting"
    /\ LET out == ProcessModelText(text)
       IN  IF out.kind = "ok"
           THEN gen' = [gen EXCEPT ![r].pc = "done", ![r].text = text,
                                   ![r].cleaned = out.cleaned,
                                   ![r].result = [kind |-> "ok", sqlQuery |-> out.sqlQuery]]
           ELSE gen' = [gen EXCEPT ![r] = [GenCatch(r, [message |-> out.message])
                                              EXCEPT !.text = text, !.cleaned = out.cleaned]]
    /\ UNCHANGED <<execVars, config, an, rw, ragVars, routeVars>>

\* the call rejected, or the timer of line 44 fired first
GenModelFails(r, message) ==
    /\ gen[r].pc = "awaiting"
    /\ gen' = [gen EXCEPT ![r] = GenCatch(r, [message |-> message])]
    /\ UNCHANGED <<execVars, config, an, rw, ragVars, routeVars>>

\* line 71 has been waited out, or there was nothing to wait for: attempt++
GenNextAttempt(r) ==
    /\ gen[r].pc \in {"backoff", "next"}
    /\ gen' = [gen EXCEPT ![r].pc = "attempt", ![r].attempt = @ + 1]
    /\ UNCHANGED <<execVars, config, an, rw, ragVars, routeVars>>

----------------------------------------------------------------------------
(* geminiService.truncateDataForAnalysis and generateAnalysis *)

MAX_ANALYSIS_ROWS == 50
MAX_ANALYSIS_CHARS == 50000

\* the length of JSON.stringify of a cell, a row, an array of rows
JsonCellLength(cell) == IF cell.type = "string" THEN cell.chars + 2 ELSE cell.chars

RECURSIVE SumOver(_, _)
SumOver(f, S) ==
    IF S = {} THEN 0
    ELSE LET x == CHOOSE y \in S : TRUE IN f[x] + SumOver(f, S \ {x})

JsonRowLength(row) ==
    LET cols == DOMAIN row
    IN  2 + SumOver([col \in cols |-> Len(col) + 3 + JsonCellLength(row[col])], cols)
          + (IF cols = {} THEN 0 ELSE Cardinality(cols) - 1)

JsonLength(rows) ==
    2 + SumOver([i \in 1..Len(rows) |-> JsonRowLength(rows[i])], 1..Len(rows))
      + (IF Len(rows) = 0 THEN 0 ELSE Len(rows) - 1)

slice(rows, n) == SubSeq(rows, 1, IF n < Len(rows) THEN n ELSE Len(rows))
max(a, b) == IF a >= b THEN a ELSE b
min(a, b) == IF a <= b THEN a ELSE b

\* lines 81-108 as written without the Math.max(10, ...) of line 100
truncateDataForAnalysis_NoFloor(queryResults) ==
    IF Len(queryResults) = 0
    THEN [truncated |-> <<>>, originalCount |-> 0, wasTruncated |-> FALSE]
    ELSE LET first == slice(queryResults, MAX_ANALYSIS_ROWS)
             length == JsonLength(first)
             maxRows == (MAX_ANALYSIS_CHARS * Len(first)) \div length
             truncated == IF length > MAX_ANALYSIS_CHARS
                          THEN slice(first, maxRows)
                          ELSE first
         IN  [truncated |-> truncated,
              originalCount |-> Len(queryResults),
              wasTruncated |-> Len(truncated) < Len(queryResults)]

\* lines 81-108; Math.floor(MAX / (length / rows)) is taken in exact arithmetic
truncateDataForAnalysis(queryResults) ==
    IF Len(queryResults) = 0
    THEN [truncated |-> <<>>, originalCount |-> 0, wasTruncated |-> FALSE]
    ELSE LET first == slice(queryResults, MAX_ANALYSIS_ROWS)
             length == JsonLength(first)
             maxRows == (MAX_ANALYSIS_CHARS * Len(first)) \div length
             truncated == IF length > MAX_ANALYSIS_CHARS
                          THEN slice(first, max(10, maxRows))
                          ELSE first
         IN  [truncated |-> truncated,
              originalCount |-> Len(queryResults),
              wasTruncated |-> Len(truncated) < Len(queryResults)]

\* promptManager.createAnalysisPrompt: the parts of the prompt that vary
createAnalysisPrompt(originalQuestion, queryResults, originalTotal) ==
    [question |-> originalQuestion,
     rows |-> queryResults,
     preview |-> originalTotal > Len(queryResults),
     total |-> IF originalTotal > Len(queryResults) THEN originalTotal ELSE 0]
NoPrompt == [question |-> <<>>, rows |-> <<>>, preview |-> FALSE, total |-> 0]

\* Object.keys(firstRow)[0]: the first column
FirstKey(row) ==
    ColumnNames[SetMin({j \in 1..Len(ColumnNames) : ColumnNames[j] \in DOMAIN row})]

\* lines 126-131 without the test of keys.length
IsSingleValue_AnyWidth(queryResults, t) ==
    t.originalCount = 1 /\ ~t.wasTruncated

\* lines 126-131: one row, not truncated, of one column
IsSingleValue(queryResults, t) ==
    /\ t.originalCount = 1
    /\ ~t.wasTruncated
    /\ Cardinality(DOMAIN queryResults[1]) = 1

\* lines 162-165
AnalysisFallback(originalCount) ==
    IF originalCount <= 10
    THEN <<"Found ", ToString(originalCount),
           " result(s). Analysis unavailable, but you can view the raw data below.">>
    ELSE <<"Found ", ToString(originalCount),
           " result(s). Analysis unavailable due to processing error. Please try refining your question or view the raw data.">>

\* line 135: Math.min(config.gemini.maxRetries, 2)
analysisAttempts == min(config.maxRetries, 2)

AnalysisErrors == {<<"Analysis timeout">>, <<"fetch failed">>}

IdleAnalysis ==
    [pc |-> "idle", question |-> <<>>, rows |-> <<>>, truncated |-> <<>>,
     originalCount |-> 0, attempt |-> 0, calls |-> 0, errors |-> <<>>,
     prompt |-> NoPrompt, result |-> NoResult]
NewAnalysis(question, rows) ==
    [IdleAnalysis EXCEPT !.pc = "start", !.question = question, !.rows = rows]

Answer(text) == [kind |-> "answer", answer |-> text]

\* lines 113-134: up to the retry loop
AnStart(r) ==
    /\ an[r].pc = "start"
    /\ LET t == truncateDataForAnalysis(an[r].rows)
       IN  IF Len(an[r].rows) = 0
           THEN an' = [an EXCEPT ![r].pc = "done",
                          ![r].result = Answer(<<"No data was found matching your query criteria.">>)]
           ELSE IF IsSingleValue(an[r].rows, t)
           THEN an' = [an EXCEPT ![r].pc = "done",
                          ![r].originalCount = t.originalCount,
                          ![r].truncated = t.truncated,
                          ![r].result = Answer(<<"Result: ",
                                                an[r].rows[1][FirstKey(an[r].rows[1])].text>>)]
           ELSE an' = [an EXCEPT ![r].pc = "attempt", ![r].attempt = 1,
                          ![r].originalCount = t.originalCount,
                          ![r].truncated = t.truncated]
    /\ UNCHANGED <<execVars, config, gen, rw, ragVars, routeVars>>

\* lines 159-165: the loop is left without a return
AnExhausted(r) == Answer(AnalysisFallback(an[r].originalCount))

\* lines 135-146: the loop test, then the prompt is built and the model called
AnAttempt(r) ==
    /\ an[r].pc = "attempt"
    /\ IF an[r].attempt <= analysisAttempts
       THEN an' = [an EXCEPT ![r].pc = "awaiting", ![r].calls = @ + 1,
                      ![r].prompt = createAnalysisPrompt(an[r].question, an[r].truncated,
                                                         an[r].originalCount)]
       ELSE an' = [an EXCEPT ![r].pc = "done", ![r].result = AnExhausted(r)]
    /\ UNCHANGED <<execVars, config, gen, rw, ragVars, routeVars>>

\* lines 148-149
AnModelReturns(r, text) ==
    /\ an[r].pc = "awaiting"
    /\ an' = [an EXCEPT ![r].pc = "done", ![r].result = Answer(trim(text))]
    /\ UNCHANGED <<execVars, config, gen, rw, ragVars, routeVars>>

\* lines 150-156: the call rejected or the timer of line 144 fired
AnModelFails(r, message) ==
    /\ an[r].pc = "awaiting"
    /\ an' = [an EXCEPT ![r].pc = "next",
                        ![r].errors = Append(@, [message |-> message])]
    /\ UNCHANGED <<execVars, config, gen, rw, ragVars, routeVars>>

\* the wait of line 154, if any, is over: attempt++
AnNextAttempt(r) ==
    /\ an[r].pc = "next"
    /\ an' = [an EXCEPT ![r].pc = "attempt", ![r].attempt = @ + 1]
    /\ UNCHANGED <<execVars, config, gen, rw, ragVars, routeVars>>

----------------------------------------------------------------------------
(* geminiService.createStandaloneQuestion *)

\* chatHistory.slice(-6)
lastSix(chatHistory) ==
    SubSeq(chatHistory, max(1, Len(chatHistory) - 5), Len(chatHistory))

\* lines 183-196: the lines of the transcript and the follow-up question
RewritePrompt(followUpQuestion, limitedHistory) ==
    [history |-> [i \in 1..Len(limitedHistory) |->
                     <<IF limitedHistory[i].role = "user" THEN "User" ELSE "Bot",
                       limitedHistory[i].content>>],
     followUp |-> followUpQuestion]

RewriteErrors == {<<"Rewrite timeout">>, <<"fetch failed">>}

\* the argument chatHistory: an array, or null/undefined (defined = FALSE)
IdleRewrite ==
    [pc |-> "idle", question |-> <<>>, defined |-> TRUE, chatHistory |-> <<>>,
     calls |-> 0, errors |-> <<>>, prompt |-> [history |-> <<>>, followUp |-> <<>>],
     result |-> NoResult]
NewRewrite(question, defined, chatHistory) ==
    [IdleRewrite EXCEPT !.pc = "start", !.question = question, !.defined = defined,
                        !.chatHistory = chatHistory]

\* line 173 when only a missing history takes the fast path
HasNoHistory_MissingOnly(defined, chatHistory) == ~defined

\* line 173: !chatHistory || chatHistory.length === 0
HasNoHistory(defined, chatHistory) == ~defined \/ Len(chatHistory) = 0

\* lines 171-204: the fast path, or the prompt is built and the model called
RwStart(r) ==
    /\ rw[r].pc = "start"
    /\ IF HasNoHistory(rw[r].defined, rw[r].chatHistory)
       THEN rw' = [rw EXCEPT ![r].pc = "done",
                             ![r].result = [kind |-> "question", question |-> rw[r].question]]
       ELSE rw' = [rw EXCEPT ![r].pc = "awaiting", ![r].calls = @ + 1,
                             ![r].prompt = RewritePrompt(rw[r].question,
                                                         lastSix(rw[r].chatHistory))]
    /\ UNCHANGED <<execVars, config, gen, an, ragVars, routeVars>>

\* lines 206-207
RwModelReturns(r, text) ==
    /\ rw[r].pc = "awaiting"
    /\ rw' = [rw EXCEPT ![r].pc = "done",
                        ![r].result = [kind |-> "question", question |-> trim(text)]]
    /\ UNCHANGED <<execVars, config, gen, an, ragVars, routeVars>>

\* lines 208-211 when the catch block throws the error on
RwCatch_Rethrows(followUpQuestion, message) ==
    [kind |-> "failed", question |-> message]

\* lines 208-211: the catch block returns the question it was given
RwCatch(followUpQuestion, message) ==
    [kind |-> "question", question |-> followUpQuestion]

\* lines 200-211: the call rejected or the timer of line 202 fired; the
\* message is logged
RwModelFails(r, message) ==
    /\ rw[r].pc = "awaiting"
    /\ rw' = [rw EXCEPT ![r].pc = "done",
                        ![r].errors = Append(@, message),
                        ![r].result = RwCatch(rw[r].question, message)]
    /\ UNCHANGED <<execVars, config, gen, an, ragVars, routeVars>>

----------------------------------------------------------------------------
(* ragService.retrieveRelevantSchemas *)

\* A message of a vector-store or embedding failure is a sequence of fragments:
\* the words the catch block looks for, and the text between them.
Has(message, fragment) == \E i \in 1..Len(message) : message[i] = fragment

\* lines 136-145: the error the catch block throws for the error it caught
RetrievalError(message) ==
    IF Has(message, "Collection") /\ Has(message, "does not exist")
    THEN <<"Schema collection does not exist. Please run the indexing script first: npm run index">>
    ELSE IF Has(message, "ECONNREFUSED")
    THEN <<"ChromaDB is not running. Please start ChromaDB: docker run -d -p 8000:8000 chromadb/chroma">>
    ELSE IF Has(message, "embedding")
    THEN <<"Failed to generate embedding for the question. Please check your Gemini API configuration.">>
    ELSE <<"Could not retrieve relevant database schemas: ">> \o message

\* searchResults.documents[0].join('\n\n---\n\n')
RECURSIVE join(_, _)
join(documents, separator) ==
    IF Len(documents) = 0 THEN <<>>
    ELSE IF Len(documents) = 1 THEN documents[1]
    ELSE documents[1] \o separator \o join(Tail(documents), separator)

IdleRag == [pc |-> "idle", question |-> <<>>, creates |-> 0, embeds |-> 0,
            queries |-> 0, result |-> NoResult]
NewRag(question) == [IdleRag EXCEPT !.pc = "start", !.question = question]

RagThrows(r, message) ==
    [rag EXCEPT ![r].pc = "done",
                ![r].result = [kind |-> "failed", error |-> RetrievalError(message)]]

\* lines 59-71 and getCollection: the question is checked, then the stored
\* handle is used or initializeConnection is awaited
RagStart(r) ==
    /\ rag[r].pc = "start"
    /\ IF Len(trim(rag[r].question)) = 0
       THEN rag' = RagThrows(r, <<"Question must be a non-empty string">>)
       ELSE IF collection = "null" \/ ~ragIsConnected
       THEN rag' = [rag EXCEPT ![r].pc = "connecting", ![r].creates = @ + 1]
       ELSE rag' = [rag EXCEPT ![r].pc = "embedding", ![r].embeds = @ + 1]
    /\ UNCHANGED <<execVars, config, gen, an, rw, collection, ragIsConnected, routeVars>>

\* lines 19-32: getOrCreateCollection resolves; the embedding is asked for
RagConnectSucceeds(r) ==
    /\ rag[r].pc = "connecting"
    /\ collection' = "handle"
    /\ ragIsConnected' = TRUE
    /\ rag' = [rag EXCEPT ![r].pc = "embedding", ![r].embeds = @ + 1]
    /\ UNCHANGED <<execVars, config, gen, an, rw, routeVars>>

\* lines 33-40: getOrCreateCollection rejects
RagConnectFails(r, message) ==
    /\ rag[r].pc = "connecting"
    /\ ragIsConnected' = FALSE
    /\ rag' = RagThrows(r, <<"ChromaDB connection failed: ">> \o message)
    /\ UNCHANGED <<execVars, config, gen, an, rw, collection, routeVars>>

\* lines 75-94: embedContent resolves, with or without an embedding
RagEmbedReturns(r, hasEmbedding) ==
    /\ rag[r].pc = "embedding"
    /\ IF hasEmbedding
       THEN rag' = [rag EXCEPT ![r].pc = "querying", ![r].queries = @ + 1]
       ELSE rag' = RagThrows(r, <<"Failed to generate ", "embedding", " for question">>)
    /\ UNCHANGED <<execVars, config, gen, an, rw, collection, ragIsConnected, routeVars>>

\* embedContent or collection.query rejects
RagCallFails(r, message) ==
    /\ rag[r].pc \in {"embedding", "querying"}
    /\ rag' = RagThrows(r, message)
    /\ UNCHANGED <<execVars, config, gen, an, rw, collection, ragIsConnected, routeVars>>

\* line 104: the message of the error thrown on no match
NoRelevantSchemas ==
    "No relevant schemas found for the question. Please try rephrasing your question or check if the relevant tables have been indexed."

\* lines 97-99 when the result is never taken to be empty
HasNoMatches_Never(documents) == FALSE

\* lines 97-99: no list of documents, or an empty one
HasNoMatches(documents) == Len(documents) = 0

\* lines 96-126: collection.query resolves with documents[0] = documents
RagQueryReturns(r, documents) ==
    /\ rag[r].pc = "querying"
    /\ IF HasNoMatches(documents)
       THEN rag' = RagThrows(r, <<NoRelevantSchemas>>)
       ELSE rag' = [rag EXCEPT ![r].pc = "done",
                       ![r].result = [kind |-> "context",
                                      schemaContext |-> join(documents, <<"\n\n---\n\n">>)]]
    /\ UNCHANGED <<execVars, config, gen, an, rw, collection, ragIsConnected, routeVars>>

----------------------------------------------------------------------------
(* middleware/validator.js: validateQuestion *)

kwTABLE == <<"T","A","B","L","E">>
kwFROM  == <<"F","R","O","M">>
kwINTO  == <<"I","N","T","O">>
kwSET   == <<"S","E","T">>

\* /first second/gi: one blank exactly between the words
WordSpaceWord_OneBlank(s, first, second) ==
    includesIgnoreCase(s, first \o <<" ">> \o second)

\* /first\s+second/gi, tested by a pattern object built for this call (its
\* lastIndex is 0): a search of the whole string
WordSpaceWord(s, first, second) ==
    \E i \in 1..Len(s) :
        /\ MatchAtIgnoreCase(s, i, first)
        /\ \E j \in (i + Len(first) + 1)..Len(s) :
              /\ \A k \in (i + Len(first))..(j - 1) : IsSpace(s[k])
              /\ MatchAtIgnoreCase(s, j, second)

\* /update\s+.+set/gi
UpdateThenSet(s) ==
    \E i \in 1..Len(s) :
        /\ MatchAtIgnoreCase(s, i, kwUPDATE)
        /\ \E m \in (i + Len(kwUPDATE) + 1)..Len(s) :
              /\ \A k \in (i + Len(kwUPDATE))..(m - 1) : IsSpace(s[k])
              /\ \E j \in (m + 1)..Len(s) :
                    /\ \A k \in m..(j - 1) : ~IsLineTerminator(s[k])
                    /\ MatchAtIgnoreCase(s, j, kwSET)

\* /word\s*\(/gi
WordThenParen(s, word) ==
    \E i \in 1..Len(s) :
        /\ MatchAtIgnoreCase(s, i, word)
        /\ \E j \in (i + Len(word))..Len(s) :
              /\ \A k \in (i + Len(word))..(j - 1) : IsSpace(s[k])
              /\ s[j] = "("

\* lines 39-53: harmfulPatterns.some(pattern => pattern.test(question))
containsHarmfulPattern(question) ==
    \/ WordSpaceWord(question, kwDROP, kwTABLE)
    \/ WordSpaceWord(question, kwDELETE, kwFROM)
    \/ WordSpaceWord(question, kwTRUNCATE, kwTABLE)
    \/ WordSpaceWord(question, kwALTER, kwTABLE)
    \/ WordSpaceWord(question, kwCREATE, kwTABLE)
    \/ WordSpaceWord(question, kwINSERT, kwINTO)
    \/ UpdateThenSet(question)
    \/ WordThenParen(question, kwEXEC)
    \/ WordThenParen(question, kwEXECUTE)
    \/ includesIgnoreCase(question, xp_cmdshell)
    \/ includesIgnoreCase(question, sp_executesql)

\* req.body.question: a value of some type; the characters of a string, the
\* digits of a number, nothing otherwise
NoBody == [type |-> "undefined", question |-> <<>>]
StringBody(question) == [type |-> "string", question |-> question]

\* !question
IsFalsy(body) ==
    \/ body.type \in {"undefined", "null"}
    \/ body.type = "string" /\ Len(body.question) = 0
    \/ body.type = "number" /\ body.question = <<"0">>

\* line 31 on the trimmed question
IsTooLong_Trimmed(question) == Len(trim(question)) > config.maxQueryLength

\* line 31
IsTooLong(question) == Len(question) > config.maxQueryLength

\* res.status(400).json({ error, code })
Rejected(error, code) ==
    [passed |-> FALSE, status |-> 400, error |-> error, code |-> code, question |-> <<>>]

\* lines 4-69: the response sent, or next() with the trimmed question
validateQuestion(body) ==
    IF IsFalsy(body)
    THEN Rejected(<<"Question is required.">>, "MISSING_QUESTION")
    ELSE IF body.type # "string"
    THEN Rejected(<<"Question must be a string.">>, "INVALID_QUESTION_TYPE")
    ELSE IF Len(trim(body.question)) = 0
    THEN Rejected(<<"Question cannot be empty.">>, "EMPTY_QUESTION")
    ELSE IF IsTooLong(body.question)
    THEN Rejected(<<"Question is too long. Maximum ", ToString(config.maxQueryLength),
                    " characters allowed.">>, "QUESTION_TOO_LONG")
    ELSE IF containsHarmfulPattern(body.question)
    THEN Rejected(<<"Question contains potentially harmful content.">>, "HARMFUL_CONTENT")
    ELSE [passed |-> TRUE, status |-> 200, error |-> <<>>, code |-> "",
          question |-> trim(body.question)]

----------------------------------------------------------------------------
(* routes/ask.js: the cached route *)

Digits == <<"0","1","2","3","4","5","6","7","8","9">>

\* the UTF-8 byte of an ASCII character of the questions
charCode ==
    [c \in {LowerChars[i] : i \in 1..26} \cup {UpperChars[i] : i \in 1..26}
           \cup {Digits[i] : i \in 1..10} \cup {" ", "?", "\n"} |->
        IF \E i \in 1..26 : LowerChars[i] = c
        THEN 96 + (CHOOSE i \in 1..26 : LowerChars[i] = c)
        ELSE IF \E i \in 1..26 : UpperChars[i] = c
        THEN 64 + (CHOOSE i \in 1..26 : UpperChars[i] = c)
        ELSE IF \E i \in 1..10 : Digits[i] = c
        THEN 47 + (CHOOSE i \in 1..10 : Digits[i] = c)
        ELSE IF c = " " THEN 32 ELSE IF c = "\n" THEN 10 ELSE 63]

\* UTF-16 code units that are half of a surrogate pair, as atoms: a JSON body
\* can hold them alone ("\ud800"), and a string is a sequence of code units
LoneSurrogates == {"uD800", "uDBFF"}
ReplacementCharacter == "uFFFD"

\* Buffer.from(string): the UTF-8 bytes; a surrogate without its other half is
\* encoded as U+FFFD (EF BF BD)
utf8Bytes(c) ==
    IF c \in LoneSurrogates \cup {ReplacementCharacter} THEN <<239, 191, 189>>
    ELSE <<charCode[c]>>
RECURSIVE utf8(_)
utf8(s) == IF Len(s) = 0 THEN <<>> ELSE utf8Bytes(s[1]) \o utf8(Tail(s))

Base64Chars == UpperChars \o LowerChars \o Digits \o <<"+", "/">>

\* buffer.toString('base64')
RECURSIVE base64(_)
base64(bytes) ==
    IF Len(bytes) = 0 THEN <<>>
    ELSE IF Len(bytes) = 1
    THEN LET b == bytes[1] * 16
         IN  <<Base64Chars[(b \div 64) + 1], Base64Chars[(b % 64) + 1], "=", "=">>
    ELSE IF Len(bytes) = 2
    THEN LET b == (bytes[1] * 256 + bytes[2]) * 4
         IN  <<Base64Chars[(b \div 4096) + 1], Base64Chars[((b \div 64) % 64) + 1],
               Base64Chars[(b % 64) + 1], "=">>
    ELSE LET b == bytes[1] * 65536 + bytes[2] * 256 + bytes[3]
         IN  <<Base64Chars[(b \div 262144) + 1], Base64Chars[((b \div 4096) % 64) + 1],
               Base64Chars[((b \div 64) % 64) + 1], Base64Chars[(b % 64) + 1]>>
             \o base64(SubSeq(bytes, 4, Len(bytes)))

\* line 42
cacheKey(question) == base64(utf8(trim(toLowerCase(question))))

\* node-cache get with no entry under any key
cacheGet_AlwaysMiss(key) == [hit |-> FALSE, value |-> NoResult]

\* node-cache get: the stored value (useClones: false), or undefined
cacheGet(key) ==
    IF key \in DOMAIN cache THEN [hit |-> TRUE, value |-> cache[key]]
    ELSE [hit |-> FALSE, value |-> NoResult]

\* node-cache set throws ECACHEFULL when maxKeys keys are stored
cacheIsFull == config.maxKeys > -1 /\ Cardinality(DOMAIN cache) >= config.maxKeys

NoResponse == [kind |-> "none"]
IdleRequest ==
    [pc |-> "idle", route |-> "none", id |-> 0, question |-> <<>>, sessionId |-> <<>>,
     chatHistory |-> <<>>, standaloneQuestion |-> <<>>, schemaContext |-> <<>>,
     sqlQuery |-> <<>>, queryResults |-> <<>>, response |-> NoResponse]

\* the catch block when it swallows the error and the handler goes on
Failed_GoesOn(r, stage, message) ==
    [req EXCEPT ![r].pc = "analyzing"]

\* err.stack of an Error made in a stage: its message and its call frames
stack(stage, message) == <<"Error: ">> \o message \o <<"\n    at ", stage>>

\* validator.js lines 103-116, errorHandler: the status and the JSON body it
\* sends for the error handed to next(); a property that is undefined is left
\* out of the body
errorHandler(stage, message) ==
    LET text == IF message = <<>> THEN <<"An unexpected error occurred.">> ELSE message
    IN  [status |-> 500,
         body |-> [error |-> IF config.nodeEnv = "development"
                             THEN [message |-> text, stack |-> stack(stage, message)]
                             ELSE [message |-> text]]]

\* the catch block: next(error), which runs errorHandler
Failed(r, stage, message) ==
    [req EXCEPT ![r].pc = "failed",
                ![r].response = [kind |-> "error", stage |-> stage, message |-> message,
                                 payload |-> errorHandler(stage, message)]]

\* a request may take the place of one that has ended and left no call behind
Quiescent(r) ==
    /\ req[r].pc \in {"idle", "rejected", "responded", "failed"}
    /\ eq[r].pc \in {"idle", "done"}

\* schemaContext.split('Table:').length - 1
CountOf(s, fragment) == Cardinality({i \in 1..Len(s) : s[i] = fragment})

\* lines 80-88: queryResults.splice(maxResultRows) on more rows than that
capRows(queryResults) ==
    IF Len(queryResults) > config.maxResultRows
    THEN SubSeq(queryResults, 1, config.maxResultRows)
    ELSE queryResults

MaxRequests == 3  \* requests that arrive in one behaviour at most
MaxSessionRequests == 2  \* the same, on the session route

\* lines 29-61: the handler up to its first await
AskArrive(r, question) ==
    /\ Quiescent(r)
    /\ served < MaxRequests
    /\ served' = served + 1
    /\ LET cachedResult == cacheGet(cacheKey(question))
           fresh == [IdleRequest EXCEPT !.route = "ask", !.id = served + 1,
                                        !.question = question]
       IN  IF cachedResult.hit
           THEN /\ req' = [req EXCEPT ![r] =
                      [fresh EXCEPT !.pc = "responded",
                                    !.response = [kind |-> "ok",
                                                  answer |-> cachedResult.value.answer,
                                                  generatedSql |-> cachedResult.value.generatedSql,
                                                  rawData |-> cachedResult.value.rawData,
                                                  metadata |-> cachedResult.value.metadata,
                                                  cached |-> TRUE,
                                                  requestId |-> served + 1]]]
                /\ rag' = [rag EXCEPT ![r] = IdleRag]
           ELSE /\ req' = [req EXCEPT ![r] = [fresh EXCEPT !.pc = "retrieving"]]
                /\ rag' = [rag EXCEPT ![r] = NewRag(question)]
    /\ gen' = [gen EXCEPT ![r] = IdleGen]
    /\ eq' = [eq EXCEPT ![r] = IdleCall]
    /\ an' = [an EXCEPT ![r] = IdleAnalysis]
    /\ rw' = [rw EXCEPT ![r] = IdleRewrite]
    /\ UNCHANGED <<poolPromise, isConnected, stalePools, dbLog, config, collection, ragIsConnected,
                   cache, sessionCache, written>>

\* line 29: validateQuestion answers the request itself, or calls next() and
\* the handler runs up to its first await with the trimmed question
PostAsk(r, body) ==
    /\ Quiescent(r)
    /\ served < MaxRequests
    /\ LET verdict == validateQuestion(body)
       IN  IF verdict.passed
           THEN AskArrive(r, verdict.question)
           ELSE /\ served' = served + 1
                /\ req' = [req EXCEPT ![r] =
                             [IdleRequest EXCEPT !.pc = "rejected", !.route = "ask",
                                                 !.id = served + 1,
                                                 !.question = body.question,
                                                 !.response = [kind |-> "invalid",
                                                               status |-> verdict.status,
                                                               error |-> verdict.error,
                                                               code |-> verdict.code]]]
                /\ rag' = [rag EXCEPT ![r] = IdleRag]
                /\ gen' = [gen EXCEPT ![r] = IdleGen]
                /\ eq' = [eq EXCEPT ![r] = IdleCall]
                /\ an' = [an EXCEPT ![r] = IdleAnalysis]
                /\ rw' = [rw EXCEPT ![r] = IdleRewrite]
                /\ UNCHANGED <<poolPromise, isConnected, stalePools, dbLog, config, collection,
                               ragIsConnected, cache, sessionCache, written>>

\* lines 61-69: the context is back; it is checked and generateSql is called
AskAfterRetrieve(r) ==
    /\ req[r].route = "ask" /\ req[r].pc = "retrieving"
    /\ rag[r].pc = "done"
    /\ IF rag[r].result.kind = "failed"
       THEN req' = Failed(r, "retrieve", rag[r].result.error) /\ UNCHANGED gen
       ELSE IF Len(trim(rag[r].result.schemaContext)) = 0
       THEN /\ req' = Failed(r, "context",
                             <<"No relevant database schemas found for this question.">>)
            /\ UNCHANGED gen
       ELSE /\ req' = [req EXCEPT ![r].pc = "generating",
                                  ![r].schemaContext = rag[r].result.schemaContext]
            /\ gen' = [gen EXCEPT ![r] = NewGen(req[r].question,
                                                     rag[r].result.schemaContext)]
    /\ UNCHANGED <<execVars, config, an, rw, ragVars, cache, sessionCache, served, written>>

\* lines 69-78: the statement is back; executeQuery is called and raced
AskAfterGenerate(r) ==
    /\ req[r].route = "ask" /\ req[r].pc = "generating"
    /\ gen[r].pc = "done"
    /\ IF gen[r].result.kind = "failed"
       THEN req' = Failed(r, "generate", gen[r].result.error) /\ UNCHANGED eq
       ELSE /\ req' = [req EXCEPT ![r].pc = "executing",
                                  ![r].sqlQuery = gen[r].result.sqlQuery]
            /\ eq' = [eq EXCEPT ![r] = NewCall(gen[r].result.sqlQuery)]
    /\ UNCHANGED <<poolPromise, isConnected, stalePools, dbLog, config, gen, an, rw, ragVars,
                   cache, sessionCache, served, written>>

\* lines 73-78 when the timer's rejection reaches the catch block although the
\* race is already settled
AskQueryTimeout_AfterSettled(r) ==
    /\ req[r].route = "ask"
    /\ \/ req[r].pc = "executing" /\ eq[r].pc # "done"
       \/ req[r].pc = "responded" /\ ~req[r].response.cached
    /\ req' = Failed(r, "timeout", <<"Query execution timeout">>)
    /\ UNCHANGED <<execVars, config, gen, an, rw, ragVars, cache, sessionCache, served,
                   written>>

\* lines 73-78: the timer of the race fires before executeQuery settles
AskQueryTimeout(r) ==
    /\ req[r].route = "ask" /\ req[r].pc = "executing"
    /\ eq[r].pc # "done"
    /\ req' = Failed(r, "timeout", <<"Query execution timeout">>)
    /\ UNCHANGED <<execVars, config, gen, an, rw, ragVars, cache, sessionCache, served,
                   written>>

\* lines 73-92: executeQuery settles first; the rows are capped and
\* generateAnalysis is called
AskAfterExecute(r) ==
    /\ req[r].route = "ask" /\ req[r].pc = "executing"
    /\ eq[r].pc = "done"
    /\ IF eq[r].result.kind # "rows"
       THEN req' = Failed(r, "execute", <<eq[r].result.error>>) /\ UNCHANGED an
       ELSE /\ req' = [req EXCEPT ![r].pc = "analyzing",
                                  ![r].queryResults = capRows(eq[r].result.rows)]
            /\ an' = [an EXCEPT ![r] = NewAnalysis(req[r].question,
                                                   capRows(eq[r].result.rows))]
    /\ UNCHANGED <<execVars, config, gen, rw, ragVars, cache, sessionCache, served, written>>

\* lines 92-125 when a full cache stores the entry before it throws
AskAfterAnalysis_StoresThenThrows(r) ==
    /\ req[r].route = "ask" /\ req[r].pc = "analyzing"
    /\ an[r].pc = "done"
    /\ LET metadata == [schemaTablesUsed |-> CountOf(req[r].schemaContext, "Table:"),
                        resultCount |-> Len(req[r].queryResults)]
           key == cacheKey(req[r].question)
           entry == [answer |-> an[r].result.answer,
                     generatedSql |-> req[r].sqlQuery,
                     rawData |-> req[r].queryResults,
                     metadata |-> metadata]
           payload == [kind |-> "ok",
                       answer |-> an[r].result.answer,
                       generatedSql |-> req[r].sqlQuery,
                       rawData |-> req[r].queryResults,
                       metadata |-> metadata,
                       cached |-> FALSE,
                       requestId |-> req[r].id]
       IN  IF an[r].result.kind # "answer"
           THEN req' = Failed(r, "analyze", <<an[r].result.error>>)
                /\ UNCHANGED <<cache, written>>
           ELSE IF cacheIsFull
           THEN /\ req' = Failed(r, "cache", <<"Cache max keys amount exceeded">>)
                /\ cache' = [k \in DOMAIN cache \cup {key} |->
                                IF k = key THEN entry ELSE cache[k]]
                /\ written' = [k \in DOMAIN written \cup {key} |->
                                IF k = key THEN payload ELSE written[k]]
           ELSE /\ cache' = [k \in DOMAIN cache \cup {key} |->
                                IF k = key THEN entry ELSE cache[k]]
                /\ written' = [k \in DOMAIN written \cup {key} |->
                                IF k = key THEN payload ELSE written[k]]
                /\ req' = [req EXCEPT ![r].pc = "responded", ![r].response = payload]
    /\ UNCHANGED <<execVars, config, gen, an, rw, ragVars, sessionCache, served>>

\* lines 92-125: the answer is back; the payload is built, cached and sent
AskAfterAnalysis(r) ==
    /\ req[r].route = "ask" /\ req[r].pc = "analyzing"
    /\ an[r].pc = "done"
    /\ LET metadata == [schemaTablesUsed |-> CountOf(req[r].schemaContext, "Table:"),
                        resultCount |-> Len(req[r].queryResults)]
           key == cacheKey(req[r].question)
           entry == [answer |-> an[r].result.answer,
                     generatedSql |-> req[r].sqlQuery,
                     rawData |-> req[r].queryResults,
                     metadata |-> metadata]
           payload == [kind |-> "ok",
                       answer |-> an[r].result.answer,
                       generatedSql |-> req[r].sqlQuery,
                       rawData |-> req[r].queryResults,
                       metadata |-> metadata,
                       cached |-> FALSE,
                       requestId |-> req[r].id]
       IN  IF an[r].result.kind # "answer"
           THEN req' = Failed(r, "analyze", <<an[r].result.error>>)
                /\ UNCHANGED <<cache, written>>
           ELSE IF cacheIsFull
           THEN req' = Failed(r, "cache", <<"Cache max keys amount exceeded">>)
                /\ UNCHANGED <<cache, written>>
           ELSE /\ cache' = [k \in DOMAIN cache \cup {key} |->
                                IF k = key THEN entry ELSE cache[k]]
                /\ written' = [k \in DOMAIN written \cup {key} |->
                                IF k = key THEN payload ELSE written[k]]
                /\ req' = [req EXCEPT ![r].pc = "responded", ![r].response = payload]
    /\ UNCHANGED <<execVars, config, gen, an, rw, ragVars, sessionCache, served>>

\* the entry's time to live (cache.ttl) has passed
CacheExpire(key) ==
    /\ key \in DOMAIN cache
    /\ cache' = [k \in DOMAIN cache \ {key} |-> cache[k]]
    /\ written' = [k \in DOMAIN written \ {key} |-> written[k]]
    /\ UNCHANGED <<execVars, config, gen, an, rw, ragVars, req, sessionCache, served>>

----------------------------------------------------------------------------
(* The session route: POST /ask with a sessionId and a stored history *)

MaxHistoryLength == 10

\* uuidv4() when it gives every request the same identifier
uuidv4_Fixed == <<"uuid-", "0">>

\* uuidv4(): an identifier no earlier request was given
uuidv4 == <<"uuid-", ToString(served + 1)>>

historyKey(sessionId) == <<"history_">> \o sessionId

\* sessionCache.get(historyKey) || []: a copy of the stored array (useClones)
storedHistory(key) == IF key \in DOMAIN sessionCache THEN sessionCache[key] ELSE <<>>

\* lines 633-636 with the newest pair removed
trimHistory_Newest(chatHistory) ==
    IF Len(chatHistory) > MaxHistoryLength * 2
    THEN SubSeq(chatHistory, 1, Len(chatHistory) - 2)
    ELSE chatHistory

\* lines 633-636: chatHistory.splice(0, 2) on more than maxHistoryLength pairs
trimHistory(chatHistory) ==
    IF Len(chatHistory) > MaxHistoryLength * 2
    THEN SubSeq(chatHistory, 3, Len(chatHistory))
    ELSE chatHistory

\* lines 598-612: the handler up to its first await.  A client sends no
\* sessionId, one of its own, or one an earlier response gave it.
SessArrive(r, question, sessionId) ==
    /\ Quiescent(r)
    /\ sessionId \in {<<>>, <<"s1">>} \cup {req[x].sessionId : x \in Requests}
    /\ served < MaxSessionRequests
    /\ served' = served + 1
    /\ LET id == IF sessionId = <<>> THEN uuidv4 ELSE sessionId
           chatHistory == storedHistory(historyKey(id))
       IN  /\ req' = [req EXCEPT ![r] =
                        [IdleRequest EXCEPT !.pc = "rewriting", !.route = "session",
                                            !.id = served + 1, !.question = question,
                                            !.sessionId = id,
                                            !.chatHistory = chatHistory]]
           /\ rw' = [rw EXCEPT ![r] = NewRewrite(question, TRUE, chatHistory)]
    /\ rag' = [rag EXCEPT ![r] = IdleRag]
    /\ gen' = [gen EXCEPT ![r] = IdleGen]
    /\ eq' = [eq EXCEPT ![r] = IdleCall]
    /\ an' = [an EXCEPT ![r] = IdleAnalysis]
    /\ UNCHANGED <<poolPromise, isConnected, stalePools, dbLog, config, collection, ragIsConnected,
                   cache, sessionCache, written>>

\* lines 612-616 when retrieval is called with the question as it was asked
SessAfterRewrite_OriginalQuestion(r) ==
    /\ req[r].route = "session" /\ req[r].pc = "rewriting"
    /\ rw[r].pc = "done"
    /\ req' = [req EXCEPT ![r].pc = "retrieving",
                          ![r].standaloneQuestion = rw[r].result.question]
    /\ rag' = [rag EXCEPT ![r] = NewRag(req[r].question)]
    /\ UNCHANGED <<execVars, config, gen, an, rw, collection, ragIsConnected,
                   cache, sessionCache, served, written>>

\* lines 612-616: the standalone question is back; retrieval is called with it
SessAfterRewrite(r) ==
    /\ req[r].route = "session" /\ req[r].pc = "rewriting"
    /\ rw[r].pc = "done"
    /\ req' = [req EXCEPT ![r].pc = "retrieving",
                          ![r].standaloneQuestion = rw[r].result.question]
    /\ rag' = [rag EXCEPT ![r] = NewRag(rw[r].result.question)]
    /\ UNCHANGED <<execVars, config, gen, an, rw, collection, ragIsConnected,
                   cache, sessionCache, served, written>>

\* lines 616-622
SessAfterRetrieve(r) ==
    /\ req[r].route = "session" /\ req[r].pc = "retrieving"
    /\ rag[r].pc = "done"
    /\ IF rag[r].result.kind = "failed"
       THEN req' = Failed(r, "retrieve", rag[r].result.error) /\ UNCHANGED gen
       ELSE IF Len(trim(rag[r].result.schemaContext)) = 0
       THEN /\ req' = Failed(r, "context",
                             <<"No relevant database schemas found for this question.">>)
            /\ UNCHANGED gen
       ELSE /\ req' = [req EXCEPT ![r].pc = "generating",
                                  ![r].schemaContext = rag[r].result.schemaContext]
            /\ gen' = [gen EXCEPT ![r] = NewGen(req[r].standaloneQuestion,
                                                     rag[r].result.schemaContext)]
    /\ UNCHANGED <<execVars, config, an, rw, ragVars, cache, sessionCache, served, written>>

\* lines 622-623 when a failed generation still records the user's turn
SessAfterGenerate_KeepsQuestion(r) ==
    /\ req[r].route = "session" /\ req[r].pc = "generating"
    /\ gen[r].pc = "done"
    /\ IF gen[r].result.kind = "failed"
       THEN /\ req' = Failed(r, "generate", gen[r].result.error)
            /\ sessionCache' =
                  [k \in DOMAIN sessionCache \cup {historyKey(req[r].sessionId)} |->
                      IF k = historyKey(req[r].sessionId)
                      THEN Append(req[r].chatHistory,
                                  [role |-> "user", content |-> req[r].question])
                      ELSE sessionCache[k]]
            /\ UNCHANGED eq
       ELSE /\ req' = [req EXCEPT ![r].pc = "executing",
                                  ![r].sqlQuery = gen[r].result.sqlQuery]
            /\ eq' = [eq EXCEPT ![r] = NewCall(gen[r].result.sqlQuery)]
            /\ UNCHANGED sessionCache
    /\ UNCHANGED <<poolPromise, isConnected, stalePools, dbLog, config, gen, an, rw, ragVars,
                   cache, served, written>>

\* lines 622-623
SessAfterGenerate(r) ==
    /\ req[r].route = "session" /\ req[r].pc = "generating"
    /\ gen[r].pc = "done"
    /\ IF gen[r].result.kind = "failed"
       THEN req' = Failed(r, "generate", gen[r].result.error) /\ UNCHANGED eq
       ELSE /\ req' = [req EXCEPT ![r].pc = "executing",
                                  ![r].sqlQuery = gen[r].result.sqlQuery]
            /\ eq' = [eq EXCEPT ![r] = NewCall(gen[r].result.sqlQuery)]
    /\ UNCHANGED <<poolPromise, isConnected, stalePools, dbLog, config, gen, an, rw, ragVars,
                   cache, sessionCache, served, written>>

\* lines 623-626: every row goes to generateAnalysis
SessAfterExecute(r) ==
    /\ req[r].route = "session" /\ req[r].pc = "executing"
    /\ eq[r].pc = "done"
    /\ IF eq[r].result.kind # "rows"
       THEN req' = Failed(r, "execute", <<eq[r].result.error>>) /\ UNCHANGED an
       ELSE /\ req' = [req EXCEPT ![r].pc = "analyzing",
                                  ![r].queryResults = eq[r].result.rows]
            /\ an' = [an EXCEPT ![r] = NewAnalysis(req[r].standaloneQuestion,
                                                   eq[r].result.rows)]
    /\ UNCHANGED <<execVars, config, gen, rw, ragVars, cache, sessionCache, served, written>>

\* lines 626-648 when the pair is appended to the history stored at the time
\* of the write, not to the copy the request read
SessAfterAnalysis_Merges(r) ==
    /\ req[r].route = "session" /\ req[r].pc = "analyzing"
    /\ an[r].pc = "done"
    /\ LET key == historyKey(req[r].sessionId)
           pushed == storedHistory(key)
                        \o <<[role |-> "user", content |-> req[r].question],
                             [role |-> "bot", content |-> an[r].result.answer]>>
       IN  IF an[r].result.kind # "answer"
           THEN req' = Failed(r, "analyze", <<an[r].result.error>>)
                /\ UNCHANGED sessionCache
           ELSE /\ sessionCache' = [k \in DOMAIN sessionCache \cup {key} |->
                                      IF k = key THEN trimHistory(pushed)
                                      ELSE sessionCache[k]]
                /\ req' = [req EXCEPT ![r].pc = "responded",
                                      ![r].chatHistory = trimHistory(pushed),
                                      ![r].response = [kind |-> "ok",
                                                       answer |-> an[r].result.answer,
                                                       generatedSql |-> req[r].sqlQuery,
                                                       rawData |-> req[r].queryResults,
                                                       sessionId |-> req[r].sessionId]]
    /\ UNCHANGED <<execVars, config, gen, an, rw, ragVars, cache, served, written>>

\* lines 626-648: the pair is pushed, the history trimmed and stored, the
\* response sent
SessAfterAnalysis(r) ==
    /\ req[r].route = "session" /\ req[r].pc = "analyzing"
    /\ an[r].pc = "done"
    /\ LET key == historyKey(req[r].sessionId)
           pushed == req[r].chatHistory
                        \o <<[role |-> "user", content |-> req[r].question],
                             [role |-> "bot", content |-> an[r].result.answer]>>
       IN  IF an[r].result.kind # "answer"
           THEN req' = Failed(r, "analyze", <<an[r].result.error>>)
                /\ UNCHANGED sessionCache
           ELSE /\ sessionCache' = [k \in DOMAIN sessionCache \cup {key} |->
                                      IF k = key THEN trimHistory(pushed)
                                      ELSE sessionCache[k]]
                /\ req' = [req EXCEPT ![r].pc = "responded",
                                      ![r].chatHistory = trimHistory(pushed),
                                      ![r].response = [kind |-> "ok",
                                                       answer |-> an[r].result.answer,
                                                       generatedSql |-> req[r].sqlQuery,
                                                       rawData |-> req[r].queryResults,
                                                       sessionId |-> req[r].sessionId]]
    /\ UNCHANGED <<execVars, config, gen, an, rw, ragVars, cache, served, written>>

\* the session's time to live has passed
SessionExpire(key) ==
    /\ key \in DOMAIN sessionCache
    /\ sessionCache' = [k \in DOMAIN sessionCache \ {key} |-> sessionCache[k]]
    /\ UNCHANGED <<execVars, config, gen, an, rw, ragVars, req, cache, served, written>>

----------------------------------------------------------------------------
(* Model outputs: texts assembled from fences, tags and statements *)

ModelLeads == {<<>>, <<backtick>>, <<backtick, backtick>>, <<" ">>}
ModelOpens ==
    {<<>>, fence, fenceSql, fence \o <<"S", "Q", "L", "\n">>, <<"s", "q", "l", " ">>,
     <<"\n">>}
ModelJoins == {<<>>, <<backtick>>}
ModelCores ==
    {kwSELECT \o <<" ", "1">>, lower(kwSELECT) \o <<" ", "1", ";">>,
     kwSELECT \o <<" ", "1", ";", " ">> \o kwDROP \o <<" ", "t">>,
     CANNOT_ANSWER, lower(CANNOT_ANSWER), kwDROP \o <<" ", "t">>, <<>>,
     <<"o", "k", " ">> \o kwSELECT \o <<" ", "1">>}
ModelCloses == {<<>>, fence, <<"\n">> \o fence \o <<"\n">>, <<";">> \o fence}
ModelTails == {<<>>, <<backtick>>}

\* a well-formed, a fenced, an unanswerable, a non-SELECT and an empty output
LoopTexts ==
    {kwSELECT \o <<" ", "1">>,
     fenceSql \o <<"\n">> \o lower(kwSELECT) \o <<" ", "1", ";", "\n">> \o fence,
     CANNOT_ANSWER, kwDROP \o <<" ", "t">>, <<>>}

ModelParts ==
    [lead : ModelLeads, open : ModelOpens, join : ModelJoins, core : ModelCores,
     close : ModelCloses, tail : ModelTails]
BuildText(p) == p.lead \o p.open \o p.join \o p.core \o p.close \o p.tail
ModelTexts == {BuildText(p) : p \in ModelParts}

----------------------------------------------------------------------------
(* Specifications: one per component, each starting its calls on drawn inputs *)

RagIdle ==
    /\ rag = [r \in Requests |-> IdleRag]
    /\ collection = "null"
    /\ ragIsConnected = FALSE
RouteIdle ==
    /\ req = [r \in Requests |-> IdleRequest]
    /\ cache = <<>>
    /\ sessionCache = <<>>
    /\ served = 0
    /\ written = <<>>
AnIdle == an = [r \in Requests |-> IdleAnalysis]
RwIdle == rw = [r \in Requests |-> IdleRewrite]

ExecIdle ==
    /\ eq = [c \in Requests |-> IdleCall]
    /\ poolPromise = "null"
    /\ isConnected = FALSE
    /\ stalePools = FALSE
    /\ dbLog = <<>>

GenIdle == gen = [r \in Requests |-> IdleGen]

GenQuestion == <<"a", "b", "?">>
ShortSchema == <<"t", " ", "t">>

InitGen ==
    /\ ExecIdle
    /\ config \in Configs
    /\ gen = [r \in Requests |->
                IF r = "r1" THEN NewGen(GenQuestion, ShortSchema) ELSE IdleGen]
    /\ AnIdle
    /\ RwIdle
    /\ RagIdle
    /\ RouteIdle

\* the retry loop, on a few outputs of each kind
NextGen ==
    \/ \E r \in Requests : GenAttempt(r)
    \/ \E r \in Requests, text \in LoopTexts : GenModelReturns(r, text)
    \/ \E r \in Requests, message \in TransportErrors : GenModelFails(r, message)
    \/ \E r \in Requests : GenNextAttempt(r)

SpecGen == InitGen /\ [][NextGen]_vars

\* generateSql on schema contexts around the limit of lines 24-28; the content
\* depends on the position, and the caller holds its arguments in req
MaxSchemaExcess == 1
SchemaLengths ==
    {1} \cup (MAX_SCHEMA_LENGTH .. (MAX_SCHEMA_LENGTH + MaxSchemaExcess))
SchemaContexts ==
    {[i \in 1..n |-> IF i > MAX_SCHEMA_LENGTH THEN "z"
                     ELSE IF i % 2 = 1 THEN "t" ELSE " "] : n \in SchemaLengths}

InitSchema ==
    /\ ExecIdle
    /\ config = [DefaultConfig EXCEPT !.maxRetries = 2]
    /\ \E schemaContext \in SchemaContexts :
          /\ gen = [r \in Requests |->
                      IF r = "r1" THEN NewGen(GenQuestion, schemaContext) ELSE IdleGen]
          /\ req = [r \in Requests |->
                      IF r = "r1"
                      THEN [IdleRequest EXCEPT !.question = GenQuestion,
                                               !.schemaContext = schemaContext]
                      ELSE IdleRequest]
    /\ AnIdle
    /\ RwIdle
    /\ RagIdle
    /\ cache = <<>>
    /\ sessionCache = <<>>
    /\ served = 0
    /\ written = <<>>

SpecSchema == InitSchema /\ [][NextGen]_vars

\* the post-processing of one output, on every assembled output
InitClean ==
    /\ ExecIdle
    /\ config = [DefaultConfig EXCEPT !.maxRetries = 1]
    /\ gen = [r \in Requests |-> IF r = "r1" THEN NewGen(GenQuestion, ShortSchema) ELSE IdleGen]
    /\ AnIdle
    /\ RwIdle
    /\ RagIdle
    /\ RouteIdle

NextClean ==
    \/ \E r \in Requests : GenAttempt(r)
    \/ \E r \in Requests, text \in ModelTexts : GenModelReturns(r, text)
    \/ \E r \in Requests, message \in TransportErrors : GenModelFails(r, message)
    \/ \E r \in Requests : GenNextAttempt(r)

SpecClean == InitClean /\ [][NextClean]_vars

InitExec ==
    /\ \E q \in QueryInputs : eq = [c \in Requests |-> IF c = "r1" THEN NewCall(q) ELSE IdleCall]
    /\ poolPromise = "null"
    /\ isConnected = FALSE
    /\ stalePools = FALSE
    /\ dbLog = <<>>
    /\ config = DefaultConfig
    /\ GenIdle
    /\ AnIdle
    /\ RwIdle
    /\ RagIdle
    /\ RouteIdle

NextExec ==
    \/ \E c \in Requests : EqValidate(c)
    \/ ConnectSucceeds
    \/ ConnectFails
    \/ PoolError
    \/ \E c \in Requests : EqSend(c)
    \/ \E c \in Requests, rows \in DbResults : EqReturns(c, rows)
    \/ \E c \in Requests, err \in DriverErrors : EqThrows(c, err)

SpecExec == InitExec /\ [][NextExec]_vars

\* executeQuery called again and again by two callers, with connects that
\* succeed or fail and with 'error' events of the current pool and of pools
\* that have been replaced
MaxCalls == 4  \* calls of executeQuery in one behaviour at most
PoolQuery == kwSELECT \o <<" ", "1">>
PoolResult == RowSet(1, 1)

\* a caller calls executeQuery
Execute(c, q) ==
    /\ eq[c].pc \in {"idle", "done"}
    /\ served < MaxCalls
    /\ served' = served + 1
    /\ eq' = [eq EXCEPT ![c] = NewCall(q)]
    /\ UNCHANGED <<poolPromise, isConnected, stalePools, dbLog, config, gen, an, rw, ragVars,
                   req, cache, sessionCache, written>>

InitPool ==
    /\ ExecIdle
    /\ config = DefaultConfig
    /\ GenIdle
    /\ AnIdle
    /\ RwIdle
    /\ RagIdle
    /\ RouteIdle

NextPool ==
    \/ \E c \in Requests : Execute(c, PoolQuery)
    \/ \E c \in Requests : EqValidate(c)
    \/ ConnectSucceeds
    \/ ConnectFails
    \/ PoolError
    \/ StalePoolError
    \/ LostConnectSucceeds
    \/ LostConnectFails
    \/ \E c \in Requests : EqSend(c)
    \/ \E c \in Requests : EqReturns(c, PoolResult)

SpecPool == InitPool /\ [][NextPool]_vars

\* generateAnalysis on result sets of every size up to a little over the row limit
MaxAnalysisInput == 52  \* rows of a result set handed to generateAnalysis at most
CellWidths == {1500, 60000}
Question1 == <<"a", "?">>

AnalysisInputs ==
    {RowSet(n, k) : n \in 0..MaxAnalysisInput, k \in 1..MaxCols}
    \cup {WideRowSet(n, k, w) : n \in 1..MaxAnalysisInput, k \in 1..MaxCols, w \in CellWidths}
AnalysisTexts == {<<"o", "k">>, <<" ", "o", "k", "\n">>}

InitAnalysis ==
    /\ ExecIdle
    /\ config \in Configs
    /\ GenIdle
    /\ RwIdle
    /\ RagIdle
    /\ RouteIdle
    /\ \E rows \in AnalysisInputs :
          an = [r \in Requests |-> IF r = "r1" THEN NewAnalysis(Question1, rows)
                                               ELSE IdleAnalysis]

NextAnalysis ==
    \/ \E r \in Requests : AnStart(r)
    \/ \E r \in Requests : AnAttempt(r)
    \/ \E r \in Requests, text \in AnalysisTexts : AnModelReturns(r, text)
    \/ \E r \in Requests, message \in AnalysisErrors : AnModelFails(r, message)
    \/ \E r \in Requests : AnNextAttempt(r)

SpecAnalysis == InitAnalysis /\ [][NextAnalysis]_vars

\* createStandaloneQuestion on histories of every length up to MaxRewriteHistory
MaxRewriteHistory == 8  \* turns of a history handed to createStandaloneQuestion at most

Turn(i) == [role |-> IF i % 2 = 1 THEN "user" ELSE "bot", content |-> <<"t", ToString(i)>>]
HistoryOf(n) == [i \in 1..n |-> Turn(i)]
RewriteTexts == {<<"b", "?">>, <<" ", "b", "?", "\n">>, <<>>, <<" ">>}
Questions == {Question1, <<"A", "?">>, <<"b", "?">>}

InitRewrite ==
    /\ ExecIdle
    /\ config = DefaultConfig
    /\ GenIdle
    /\ AnIdle
    /\ RagIdle
    /\ RouteIdle
    /\ \E q \in Questions, defined \in BOOLEAN, n \in 0..MaxRewriteHistory :
          /\ ~defined => n = 0
          /\ rw = [r \in Requests |-> IF r = "r1" THEN NewRewrite(q, defined, HistoryOf(n))
                                                  ELSE IdleRewrite]

NextRewrite ==
    \/ \E r \in Requests : RwStart(r)
    \/ \E r \in Requests, text \in RewriteTexts : RwModelReturns(r, text)
    \/ \E r \in Requests, message \in RewriteErrors : RwModelFails(r, message)

SpecRewrite == InitRewrite /\ [][NextRewrite]_vars

\* The cached route, one request after the other.
\* questions as validateQuestion passes them on: trimmed and not empty
PipeQuestions == {<<"a", "b", "?">>, <<"A", "b", "?">>, <<"c", "d", "?">>}
\* request bodies: the questions, one of them padded to one character more than
\* security.maxQueryLength, one that names a statement, and no question at all
PaddedQuestion ==
    <<"a", "b", "?">> \o [i \in 1..(DefaultConfig.maxQueryLength - 2) |-> " "]
DropTableEmployees ==
    <<"d","r","o","p"," ","t","a","b","l","e"," ","e","m","p","l","o","y","e","e","s">>
HarmfulQuestions ==
    {DropTableEmployees,
     <<"D","r","o","p"," ","\n","t","a","b","l","e"," ","t","?">>}
PipeBodies ==
    {StringBody(question) : question \in PipeQuestions \cup {PaddedQuestion}
                                            \cup HarmfulQuestions}
        \cup {NoBody}
PipeKeys == {cacheKey(question) : question \in PipeQuestions}
PipeTexts ==
    {<<"S","E","L","E","C","T"," ","1">>,
     <<"s","e","l","e","c","t"," ","1",";","d","r","o","p"," ","t">>,
     <<"C","A","N","N","O","T","_","A","N","S","W","E","R">>}
PipeResults == {RowSet(n, 1) : n \in {0, 1, MaxDbRows}}
PipeDriverErrors == {e \in DriverErrors : e.number = 208}
PipeAnswers == {<<"o", "k">>}
Document1 == <<"Table:", " t1">>
PipeDocuments == {<<>>, <<Document1, Document1>>, <<<<" ">>>>}
RagMessages == {<<"connect ", "ECONNREFUSED">>, <<"fetch failed">>}
PipeMessages == {<<"fetch failed">>}
\* the configuration as shipped, with a small row cap, with a small cache
PipeConfigs ==
    {[DefaultConfig EXCEPT !.maxRetries = 2],
     [DefaultConfig EXCEPT !.maxRetries = 2, !.maxResultRows = MaxRowCap,
                           !.nodeEnv = "development"],
     [DefaultConfig EXCEPT !.maxRetries = 2, !.maxKeys = 1]}

InitAsk ==
    /\ ExecIdle
    /\ config \in PipeConfigs
    /\ GenIdle
    /\ AnIdle
    /\ RwIdle
    /\ RagIdle
    /\ RouteIdle

ServiceSteps ==
    \/ \E r \in Requests : RagStart(r)
    \/ \E r \in Requests : RagConnectSucceeds(r)
    \/ \E r \in Requests, message \in RagMessages : RagConnectFails(r, message)
    \/ \E r \in Requests, hasEmbedding \in BOOLEAN : RagEmbedReturns(r, hasEmbedding)
    \/ \E r \in Requests, message \in PipeMessages : RagCallFails(r, message)
    \/ \E r \in Requests, documents \in PipeDocuments : RagQueryReturns(r, documents)
    \/ \E r \in Requests : GenAttempt(r)
    \/ \E r \in Requests, text \in PipeTexts : GenModelReturns(r, text)
    \/ \E r \in Requests, message \in PipeMessages : GenModelFails(r, message)
    \/ \E r \in Requests : GenNextAttempt(r)
    \/ \E r \in Requests : EqValidate(r)
    \/ ConnectSucceeds
    \/ ConnectFails
    \/ PoolError
    \/ \E r \in Requests : EqSend(r)
    \/ \E r \in Requests, rows \in PipeResults : EqReturns(r, rows)
    \/ \E r \in Requests, err \in PipeDriverErrors : EqThrows(r, err)
    \/ \E r \in Requests : AnStart(r)
    \/ \E r \in Requests : AnAttempt(r)
    \/ \E r \in Requests, text \in PipeAnswers : AnModelReturns(r, text)
    \/ \E r \in Requests, message \in PipeMessages : AnModelFails(r, message)
    \/ \E r \in Requests : AnNextAttempt(r)

NextAsk ==
    \/ \E body \in PipeBodies : PostAsk("r1", body)
    \/ AskAfterRetrieve("r1")
    \/ AskAfterGenerate("r1")
    \/ AskQueryTimeout("r1")
    \/ AskAfterExecute("r1")
    \/ AskAfterAnalysis("r1")
    \/ \E key \in PipeKeys : CacheExpire(key)
    \/ ServiceSteps

SpecAsk == InitAsk /\ [][NextAsk]_vars

\* The cached route on questions that differ in letter case or in a lone
\* surrogate, with every service answering: requests arrive on both slots and
\* may overlap, and no entry expires
KeyQuestions ==
    {<<"a", "uD800", "?">>, <<"A", "uD800", "?">>, <<"a", "uDBFF", "?">>,
     <<"a", "b", "?">>}
KeyBodies == {StringBody(question) : question \in KeyQuestions}
KeyResult == RowSet(2, 1)

InitKey ==
    /\ ExecIdle
    /\ config = [DefaultConfig EXCEPT !.maxRetries = 1]
    /\ GenIdle
    /\ AnIdle
    /\ RwIdle
    /\ RagIdle
    /\ RouteIdle

NextKey ==
    \/ \E r \in Requests, body \in KeyBodies : PostAsk(r, body)
    \/ \E r \in Requests : AskAfterRetrieve(r)
    \/ \E r \in Requests : AskAfterGenerate(r)
    \/ \E r \in Requests : AskAfterExecute(r)
    \/ \E r \in Requests : AskAfterAnalysis(r)
    \/ \E r \in Requests : RagStart(r)
    \/ \E r \in Requests : RagConnectSucceeds(r)
    \/ \E r \in Requests : RagEmbedReturns(r, TRUE)
    \/ \E r \in Requests : RagQueryReturns(r, <<Document1>>)
    \/ \E r \in Requests : GenAttempt(r)
    \/ \E r \in Requests : GenModelReturns(r, kwSELECT \o <<" ", "1">>)
    \/ \E r \in Requests : EqValidate(r)
    \/ ConnectSucceeds
    \/ \E r \in Requests : EqSend(r)
    \/ \E r \in Requests : EqReturns(r, KeyResult)
    \/ \E r \in Requests : AnStart(r)
    \/ \E r \in Requests : AnAttempt(r)
    \/ \E r \in Requests : AnModelReturns(r, <<"o", "k">>)

SpecKey == InitKey /\ [][NextKey]_vars

\* The cached route with requests on both slots that may overlap and may ask
\* the same question, with stages that fail, entries that expire and a cache
\* that may be full
RaceQuestions == {<<"a", "?">>, <<"A", "?">>, <<"b", "?">>}
RaceBodies == {StringBody(question) : question \in RaceQuestions}
RaceKeys == {cacheKey(question) : question \in RaceQuestions}
RaceAnswers == {<<"o", "k">>, <<"n", "o">>}
RaceResults == {RowSet(2, 1)}
\* a cache of one key: an entry under the other key fills it
RaceConfig == [DefaultConfig EXCEPT !.maxRetries = 1, !.maxKeys = 1]

InitRace ==
    /\ ExecIdle
    /\ config = RaceConfig
    /\ GenIdle
    /\ AnIdle
    /\ RwIdle
    /\ RagIdle
    /\ RouteIdle

NextRace ==
    \/ \E r \in Requests, body \in RaceBodies : PostAsk(r, body)
    \/ \E r \in Requests : AskAfterRetrieve(r)
    \/ \E r \in Requests : AskAfterGenerate(r)
    \/ \E r \in Requests : AskQueryTimeout(r)
    \/ \E r \in Requests : AskAfterExecute(r)
    \/ \E r \in Requests : AskAfterAnalysis(r)
    \/ \E key \in RaceKeys : CacheExpire(key)
    \/ \E r \in Requests : RagStart(r)
    \/ \E r \in Requests : RagConnectSucceeds(r)
    \/ \E r \in Requests : RagEmbedReturns(r, TRUE)
    \/ \E r \in Requests, documents \in {<<>>, <<Document1>>} : RagQueryReturns(r, documents)
    \/ \E r \in Requests : GenAttempt(r)
    \/ \E r \in Requests : GenModelReturns(r, kwSELECT \o <<" ", "1">>)
    \/ \E r \in Requests, message \in PipeMessages : GenModelFails(r, message)
    \/ \E r \in Requests : EqValidate(r)
    \/ ConnectSucceeds
    \/ \E r \in Requests : EqSend(r)
    \/ \E r \in Requests, rows \in RaceResults : EqReturns(r, rows)
    \/ \E r \in Requests, err \in PipeDriverErrors : EqThrows(r, err)
    \/ \E r \in Requests : AnStart(r)
    \/ \E r \in Requests : AnAttempt(r)
    \/ \E r \in Requests, text \in RaceAnswers : AnModelReturns(r, text)

SpecRace == InitRace /\ [][NextRace]_vars

\* retrieveRelevantSchemas called by concurrent requests, with a vector store and
\* an embedding service that answer or fail with messages of their own
MaxRetrievals == 3  \* calls of retrieveRelevantSchemas in one behaviour at most
StoreMessages ==
    {<<"connect ", "ECONNREFUSED", " 127.0.0.1:8000">>,
     <<"Collection", " sql_schemas ", "does not exist">>}
EmbedMessages ==
    {<<"fetch failed">>,
     <<"request to the model failed, reason: connect ", "ECONNREFUSED", " 10.0.0.1:443">>}

\* a request calls retrieveRelevantSchemas
Retrieve(r, question) ==
    /\ rag[r].pc \in {"idle", "done"}
    /\ served < MaxRetrievals
    /\ served' = served + 1
    /\ rag' = [rag EXCEPT ![r] = NewRag(question)]
    /\ UNCHANGED <<execVars, config, gen, an, rw, collection, ragIsConnected, req, cache,
                   sessionCache, written>>

InitRag ==
    /\ ExecIdle
    /\ config = DefaultConfig
    /\ GenIdle
    /\ AnIdle
    /\ RwIdle
    /\ RagIdle
    /\ RouteIdle

NextRag ==
    \/ \E r \in Requests : Retrieve(r, GenQuestion)
    \/ \E r \in Requests : RagStart(r)
    \/ \E r \in Requests : RagConnectSucceeds(r)
    \/ \E r \in Requests, message \in StoreMessages : RagConnectFails(r, message)
    \/ \E r \in Requests, hasEmbedding \in BOOLEAN : RagEmbedReturns(r, hasEmbedding)
    \/ \E r \in Requests, message \in EmbedMessages : RagCallFails(r, message)
    \/ \E r \in Requests, documents \in PipeDocuments : RagQueryReturns(r, documents)

SpecRag == InitRag /\ [][NextRag]_vars

\* The cached route with its timers.  A step of the program itself happens
\* when it can: a continuation runs once the promise it awaits has settled,
\* and a timer that was set fires unless the call it guards settles first.
\* The services outside the process (the embedding and completion model, the
\* vector store, the database) answer when they answer, or never.
SqlTimeout == <<"SQL generation timeout">>
AnalysisTimeout == <<"Analysis timeout">>
DriverTimeout == CHOOSE e \in DriverErrors : e.code = "ETIMEOUT"
LiveBodies == {StringBody(<<"a", "b", "?">>), StringBody(<<"c", "d", "?">>)}

InitLive ==
    /\ ExecIdle
    /\ config = [DefaultConfig EXCEPT !.maxRetries = 2]
    /\ GenIdle
    /\ AnIdle
    /\ RwIdle
    /\ RagIdle
    /\ RouteIdle

NextLive ==
    \/ \E body \in LiveBodies : PostAsk("r1", body)
    \/ AskAfterRetrieve("r1")
    \/ AskAfterGenerate("r1")
    \/ AskQueryTimeout("r1")
    \/ AskAfterExecute("r1")
    \/ AskAfterAnalysis("r1")
    \/ \E body \in LiveBodies : CacheExpire(cacheKey(body.question))
    \/ \E r \in Requests : RagStart(r)
    \/ \E r \in Requests : RagConnectSucceeds(r)
    \/ \E r \in Requests, message \in RagMessages : RagConnectFails(r, message)
    \/ \E r \in Requests, hasEmbedding \in BOOLEAN : RagEmbedReturns(r, hasEmbedding)
    \/ \E r \in Requests, message \in PipeMessages : RagCallFails(r, message)
    \/ \E r \in Requests, documents \in PipeDocuments : RagQueryReturns(r, documents)
    \/ \E r \in Requests : GenAttempt(r)
    \/ \E r \in Requests, text \in PipeTexts : GenModelReturns(r, text)
    \/ \E r \in Requests : GenModelFails(r, SqlTimeout)
    \/ \E r \in Requests : GenNextAttempt(r)
    \/ \E r \in Requests : EqValidate(r)
    \/ ConnectSucceeds
    \/ ConnectFails
    \/ \E r \in Requests : EqSend(r)
    \/ \E r \in Requests, rows \in PipeResults : EqReturns(r, rows)
    \/ \E r \in Requests : EqThrows(r, DriverTimeout)
    \/ \E r \in Requests : AnStart(r)
    \/ \E r \in Requests : AnAttempt(r)
    \/ \E r \in Requests, text \in PipeAnswers : AnModelReturns(r, text)
    \/ \E r \in Requests : AnModelFails(r, AnalysisTimeout)
    \/ \E r \in Requests : AnNextAttempt(r)

\* the continuations and the timers of the code: Promise.race in generateSql
\* (15 s), generateAnalysis (20 s) and the route (queryTimeoutMs), the retry
\* delays, the driver's connectionTimeout and requestTimeout.  No timer
\* guards getOrCreateCollection, embedContent or collection.query.
FairLive ==
    /\ \A r \in Requests :
          /\ WF_vars(AskAfterRetrieve(r))
          /\ WF_vars(AskAfterGenerate(r))
          /\ WF_vars(AskQueryTimeout(r))
          /\ WF_vars(AskAfterExecute(r))
          /\ WF_vars(AskAfterAnalysis(r))
          /\ WF_vars(RagStart(r))
          /\ WF_vars(GenAttempt(r))
          /\ WF_vars(GenModelFails(r, SqlTimeout))
          /\ WF_vars(GenNextAttempt(r))
          /\ WF_vars(EqValidate(r))
          /\ WF_vars(EqSend(r))
          /\ WF_vars(EqThrows(r, DriverTimeout))
          /\ WF_vars(AnStart(r))
          /\ WF_vars(AnAttempt(r))
          /\ WF_vars(AnModelFails(r, AnalysisTimeout))
          /\ WF_vars(AnNextAttempt(r))
    /\ WF_vars(ConnectFails)

SpecLive == InitLive /\ [][NextLive]_vars /\ FairLive

\* The cached route with its timers and with services that settle: every call
\* made to the vector store and to the embedding model returns or fails in the
\* end.  One question is asked again and again.
SettleBody == StringBody(<<"a", "b", "?">>)
SettleDocuments == {<<>>, <<Document1>>}
SettleText == kwSELECT \o <<" ", "1">>
SettleResult == RowSet(2, 1)

RagSettles(r) ==
    \/ RagConnectSucceeds(r)
    \/ \E message \in PipeMessages : RagConnectFails(r, message)
    \/ \E hasEmbedding \in BOOLEAN : RagEmbedReturns(r, hasEmbedding)
    \/ \E message \in PipeMessages : RagCallFails(r, message)
    \/ \E documents \in SettleDocuments : RagQueryReturns(r, documents)

NextSettle ==
    \/ PostAsk("r1", SettleBody)
    \/ AskAfterRetrieve("r1")
    \/ AskAfterGenerate("r1")
    \/ AskQueryTimeout("r1")
    \/ AskAfterExecute("r1")
    \/ AskAfterAnalysis("r1")
    \/ CacheExpire(cacheKey(SettleBody.question))
    \/ RagStart("r1")
    \/ RagSettles("r1")
    \/ GenAttempt("r1")
    \/ GenModelReturns("r1", SettleText)
    \/ GenModelFails("r1", SqlTimeout)
    \/ GenNextAttempt("r1")
    \/ EqValidate("r1")
    \/ ConnectSucceeds
    \/ ConnectFails
    \/ EqSend("r1")
    \/ EqReturns("r1", SettleResult)
    \/ EqThrows("r1", DriverTimeout)
    \/ AnStart("r1")
    \/ AnAttempt("r1")
    \/ \E text \in PipeAnswers : AnModelReturns("r1", text)
    \/ AnModelFails("r1", AnalysisTimeout)
    \/ AnNextAttempt("r1")

FairSettle ==
    /\ WF_vars(AskAfterRetrieve("r1"))
    /\ WF_vars(AskAfterGenerate("r1"))
    /\ WF_vars(AskQueryTimeout("r1"))
    /\ WF_vars(AskAfterExecute("r1"))
    /\ WF_vars(AskAfterAnalysis("r1"))
    /\ WF_vars(RagStart("r1"))
    /\ WF_vars(RagSettles("r1"))
    /\ WF_vars(GenAttempt("r1"))
    /\ WF_vars(GenModelFails("r1", SqlTimeout))
    /\ WF_vars(GenNextAttempt("r1"))
    /\ WF_vars(EqValidate("r1"))
    /\ WF_vars(EqSend("r1"))
    /\ WF_vars(EqThrows("r1", DriverTimeout))
    /\ WF_vars(AnStart("r1"))
    /\ WF_vars(AnAttempt("r1"))
    /\ WF_vars(AnModelFails("r1", AnalysisTimeout))
    /\ WF_vars(AnNextAttempt("r1"))
    /\ WF_vars(ConnectFails)

SpecSettle == InitLive /\ [][NextSettle]_vars /\ FairSettle

\* The session route, one request after the other, on a session that holds the
\* pairs of earlier successful requests.
PreloadedPairs == {0, MaxHistoryLength - 1, MaxHistoryLength}
Session1 == <<"s1">>
SessionIds == {Session1} \cup {<<"uuid-", ToString(n)>> : n \in 1..MaxSessionRequests}
SessQuestions == {<<"a", "?">>, <<"c", "?">>}
SessRewrites == {<<" ", "b", "?">>}
SessResults == {RowSet(MaxDbRows, 1)}

\* what i successful requests leave: the questions asked and the answers given
EarlierPairs(n) ==
    [i \in 1..(2 * n) |->
        IF i % 2 = 1
        THEN [role |-> "user", content |-> <<"q", ToString((i + 1) \div 2)>>]
        ELSE [role |-> "bot", content |-> <<"Result: ", ToString(i \div 2)>>]]

InitSession ==
    /\ ExecIdle
    /\ config = [DefaultConfig EXCEPT !.maxRetries = 2]
    /\ GenIdle
    /\ AnIdle
    /\ RwIdle
    /\ RagIdle
    /\ req = [r \in Requests |-> IdleRequest]
    /\ cache = <<>>
    /\ served = 0
    /\ written = <<>>
    /\ \E n \in PreloadedPairs :
          sessionCache = IF n = 0 THEN <<>>
                         ELSE [k \in {historyKey(Session1)} |-> EarlierPairs(n)]

SessionSteps ==
    \/ \E r \in Requests : RwStart(r)
    \/ \E r \in Requests, text \in SessRewrites : RwModelReturns(r, text)
    \/ \E r \in Requests, message \in RewriteErrors : RwModelFails(r, message)
    \/ \E r \in Requests : RagStart(r)
    \/ \E r \in Requests : RagConnectSucceeds(r)
    \/ \E r \in Requests, message \in RagMessages : RagConnectFails(r, message)
    \/ \E r \in Requests, hasEmbedding \in BOOLEAN : RagEmbedReturns(r, hasEmbedding)
    \/ \E r \in Requests, message \in PipeMessages : RagCallFails(r, message)
    \/ \E r \in Requests, documents \in PipeDocuments : RagQueryReturns(r, documents)
    \/ \E r \in Requests : GenAttempt(r)
    \/ \E r \in Requests, text \in PipeTexts : GenModelReturns(r, text)
    \/ \E r \in Requests, message \in PipeMessages : GenModelFails(r, message)
    \/ \E r \in Requests : GenNextAttempt(r)
    \/ \E r \in Requests : EqValidate(r)
    \/ ConnectSucceeds
    \/ ConnectFails
    \/ \E r \in Requests : EqSend(r)
    \/ \E r \in Requests, rows \in SessResults : EqReturns(r, rows)
    \/ \E r \in Requests, err \in PipeDriverErrors : EqThrows(r, err)
    \/ \E r \in Requests : AnStart(r)
    \/ \E r \in Requests : AnAttempt(r)
    \/ \E r \in Requests, text \in PipeAnswers : AnModelReturns(r, text)
    \/ \E r \in Requests, message \in PipeMessages : AnModelFails(r, message)
    \/ \E r \in Requests : AnNextAttempt(r)

NextSession ==
    \/ \E question \in SessQuestions, sessionId \in {<<>>} \cup SessionIds :
            SessArrive("r1", question, sessionId)
    \/ SessAfterRewrite("r1")
    \/ SessAfterRetrieve("r1")
    \/ SessAfterGenerate("r1")
    \/ SessAfterExecute("r1")
    \/ SessAfterAnalysis("r1")
    \/ \E key \in {historyKey(sessionId) : sessionId \in SessionIds} : SessionExpire(key)
    \/ SessionSteps

SpecSession == InitSession /\ [][NextSession]_vars

\* The session route when the rewriting model may also answer with white space
\* only or with nothing
BlankRewrites == {<<" ">>, <<>>}

NextBlank ==
    \/ \E r \in Requests, text \in BlankRewrites : RwModelReturns(r, text)
    \/ NextSession

SpecBlank == InitSession /\ [][NextBlank]_vars

\* The session route with requests on both slots, which may overlap and may
\* name the same session; retrieval finds documents or none
SharedDocuments == {<<>>, <<Document1>>}
SharedAnswer == <<"o", "k">>

InitShared ==
    /\ ExecIdle
    /\ config = [DefaultConfig EXCEPT !.maxRetries = 1]
    /\ GenIdle
    /\ AnIdle
    /\ RwIdle
    /\ RagIdle
    /\ req = [r \in Requests |-> IdleRequest]
    /\ cache = <<>>
    /\ served = 0
    /\ written = <<>>
    /\ \E n \in PreloadedPairs :
          sessionCache = IF n = 0 THEN <<>>
                         ELSE [k \in {historyKey(Session1)} |-> EarlierPairs(n)]

NextShared ==
    \/ \E r \in Requests, question \in SessQuestions, sessionId \in {<<>>, Session1} :
            SessArrive(r, question, sessionId)
    \/ \E r \in Requests : SessAfterRewrite(r)
    \/ \E r \in Requests : SessAfterRetrieve(r)
    \/ \E r \in Requests : SessAfterGenerate(r)
    \/ \E r \in Requests : SessAfterExecute(r)
    \/ \E r \in Requests : SessAfterAnalysis(r)
    \/ \E r \in Requests : RwStart(r)
    \/ \E r \in Requests, text \in SessRewrites : RwModelReturns(r, text)
    \/ \E r \in Requests : RagStart(r)
    \/ \E r \in Requests : RagConnectSucceeds(r)
    \/ \E r \in Requests : RagEmbedReturns(r, TRUE)
    \/ \E r \in Requests, documents \in SharedDocuments : RagQueryReturns(r, documents)
    \/ \E r \in Requests : GenAttempt(r)
    \/ \E r \in Requests : GenModelReturns(r, kwSELECT \o <<" ", "1">>)
    \/ \E r \in Requests : EqValidate(r)
    \/ ConnectSucceeds
    \/ \E r \in Requests : EqSend(r)
    \/ \E r \in Requests : EqReturns(r, KeyResult)
    \/ \E r \in Requests : AnStart(r)
    \/ \E r \in Requests : AnAttempt(r)
    \/ \E r \in Requests : AnModelReturns(r, SharedAnswer)

SpecShared == InitShared /\ [][NextShared]_vars

----------------------------------------------------------------------------
(* Properties of executeQuery *)

\* C2: every statement handed to the database is the unchanged input of a call
\* that is non-empty, starts with SELECT once trimmed and upper-cased and
\* matches no dangerous pattern; a rejected call has never asked for the pool.
C2_OnlyValidatedQueriesReachDatabase ==
    /\ \A i \in 1..Len(dbLog) :
          /\ \E c \in Requests : eq[c].query = dbLog[i] /\ eq[c].askedPool
          /\ trim(dbLog[i]) # <<>>
          /\ startsWith(toUpperCase(trim(dbLog[i])), kwSELECT)
          /\ ~SeparatorThenMutating(dbLog[i])
          /\ ~includesIgnoreCase(dbLog[i], xp_cmdshell)
          /\ ~includesIgnoreCase(dbLog[i], sp_executesql)
          /\ ~LineComment(dbLog[i])
          /\ ~BlockComment(dbLog[i])
    /\ \A c \in Requests :
          eq[c].result.kind = "rejected"
              => /\ ~eq[c].askedPool
                 /\ \A i \in 1..Len(dbLog) : dbLog[i] # eq[c].query

\* a SELECT with a line comment has been rejected and nothing was sent
C2_Witness ==
    /\ eq["r1"].pc = "done"
    /\ eq["r1"].result.kind = "rejected"
    /\ startsWith(toUpperCase(trim(eq["r1"].query)), kwSELECT)
    /\ LineComment(eq["r1"].query)
    /\ dbLog = <<>>
    /\ poolPromise = "null"

\* the strings "separator, white space, mutating keyword", written out
SeparatorKeywordStrings ==
    {<<";">> \o Repeat(<<w>>, n) \o kw :
        w \in {" ", "\n"}, n \in 0..MaxGap, kw \in MutatingKeywords}

ContainsSeparatorKeyword(q) ==
    \E i \in 1..Len(q) :
        q[i] = ";" /\ \E s \in SeparatorKeywordStrings : MatchAtIgnoreCase(q, i, s)

\* C3: a statement that contains ';', optional white space and a mutating
\* keyword (in any letter case) is rejected by the gate, with the unsafe-pattern
\* error when it starts with SELECT, and is never sent.
C3_SeparatorThenMutatingRejected ==
    \A c \in Requests :
        (eq[c].pc \notin {"idle", "start"} /\ ContainsSeparatorKeyword(eq[c].query))
            => /\ eq[c].pc = "done"
               /\ eq[c].result.kind = "rejected"
               /\ eq[c].result.error \in {"only SELECT queries are allowed",
                                          "Query contains potentially unsafe patterns"}
               /\ startsWith(toUpperCase(trim(eq[c].query)), kwSELECT)
                     => eq[c].result.error = "Query contains potentially unsafe patterns"
               /\ dbLog = <<>>

\* "SELECT 1; drop t" has been rejected
C3_Witness ==
    /\ eq["r1"].pc = "done"
    /\ eq["r1"].query = kwSELECT \o <<" ", "1", ";", " ">> \o lower(kwDROP) \o <<" ", "t">>
    /\ eq["r1"].result.kind = "rejected"
    /\ eq["r1"].result.error = "Query contains potentially unsafe patterns"

----------------------------------------------------------------------------
(* Properties of generateSql *)

\* C6: every query generateSql returns holds no code fence, starts with SELECT
\* in some letter case and ends with ';', and is the cleaned text itself when
\* that already ended with ';'.
C6_ReturnedSqlIsCleanSelect ==
    gen["r1"].result.kind = "ok"
        => /\ ~includes(gen["r1"].result.sqlQuery, fence)
           /\ startsWith(toUpperCase(gen["r1"].result.sqlQuery), kwSELECT)
           /\ endsWith(gen["r1"].result.sqlQuery, <<";">>)
           /\ gen["r1"].result.sqlQuery =
                 IF endsWith(gen["r1"].cleaned, <<";">>) THEN gen["r1"].cleaned
                 ELSE gen["r1"].cleaned \o <<";">>

\* an output inside ```sql ... ``` fences has been returned as a query
C6_Witness ==
    /\ gen["r1"].result.kind = "ok"
    /\ startsWith(gen["r1"].text, fenceSql)
    /\ \E i \in 4..Len(gen["r1"].text) : MatchAt(gen["r1"].text, i, fence)
    /\ ~endsWith(gen["r1"].cleaned, <<";">>)

\* C7: when generateSql fails it has called the model exactly maxRetries times,
\* every call failed, and its error carries the message of the last failure;
\* when it returns a query, that is the query of the last call made and every
\* call before it failed.
C7_RetryUntilSuccessOrExhaustion ==
    /\ gen["r1"].calls <= config.maxRetries
    /\ (gen["r1"].pc = "done" /\ gen["r1"].result.kind = "failed")
          => /\ gen["r1"].calls = config.maxRetries
             /\ Len(gen["r1"].errors) = config.maxRetries
             /\ gen["r1"].result.error[4] = gen["r1"].errors[Len(gen["r1"].errors)].message
    /\ gen["r1"].result.kind = "ok"
          => /\ gen["r1"].pc = "done"
             /\ gen["r1"].calls = Len(gen["r1"].errors) + 1
             /\ gen["r1"].result.sqlQuery = ProcessModelText(gen["r1"].text).sqlQuery

\* a malformed output, then a timeout, then failure after more than one attempt
C7_Witness ==
    /\ gen["r1"].pc = "done"
    /\ gen["r1"].result.kind = "failed"
    /\ gen["r1"].calls >= 2
    /\ gen["r1"].errors[1].message # gen["r1"].errors[Len(gen["r1"].errors)].message
    /\ gen["r1"].errors[Len(gen["r1"].errors)].message = <<"SQL generation timeout">>

----------------------------------------------------------------------------
(* Properties of generateAnalysis *)

AnalysisAlwaysAnswers ==
    \A r \in Requests :
        /\ an[r].result.kind \in {"none", "answer"}
        /\ (an[r].pc = "done" /\ an[r].calls > 0 /\ Len(an[r].errors) = an[r].calls)
              => /\ an[r].calls = min(config.maxRetries, 2)
                 /\ an[r].result = Answer(AnalysisFallback(Len(an[r].rows)))

----------------------------------------------------------------------------
(* Properties of createStandaloneQuestion *)

\* C10: with an empty or a missing history createStandaloneQuestion returns the
\* question it was given and calls no model.
C10_NoHistoryFastPath ==
    LET w == rw["r1"]
    IN  (w.pc \notin {"idle", "start"} /\ (~w.defined \/ w.chatHistory = <<>>))
            => /\ w.pc = "done"
               /\ w.calls = 0
               /\ w.result = [kind |-> "question", question |-> w.question]

\* the call with an empty array has returned
C10_Witness ==
    /\ rw["r1"].pc = "done"
    /\ rw["r1"].defined
    /\ rw["r1"].chatHistory = <<>>
    /\ rw["r1"].result.question = <<"A", "?">>

----------------------------------------------------------------------------
(* Properties of the cached route *)

\* C1: a question that validateQuestion passes on to the handler while the
\* cache holds an entry under its key is
\* answered at once with the answer and the statement of the run that stored
\* the entry, marked cached, and none of retrieval, generation, execution and
\* summarization is called for it; every run that responds leaves such an entry.
C1_CacheHitShortCircuits ==
    [][\A r \in Requests :
         /\ (/\ served' = served + 1
             /\ req'[r].id = served'
             /\ req'[r].route = "ask"
             /\ req'[r].pc # "rejected"
             /\ cacheKey(req'[r].question) \in DOMAIN cache)
               => /\ req'[r].pc = "responded"
                  /\ req'[r].response.kind = "ok"
                  /\ req'[r].response.cached = TRUE
                  /\ req'[r].response.answer =
                        written[cacheKey(req'[r].question)].answer
                  /\ req'[r].response.generatedSql =
                        written[cacheKey(req'[r].question)].generatedSql
                  /\ rag'[r] = IdleRag /\ gen'[r] = IdleGen
                  /\ eq'[r] = IdleCall /\ an'[r] = IdleAnalysis
                  /\ dbLog' = dbLog
                  /\ cache' = cache
         /\ (req[r].route = "ask" /\ req[r].pc = "analyzing" /\ req'[r].pc = "responded")
               => /\ cacheKey(req[r].question) \in DOMAIN cache'
                  /\ written'[cacheKey(req[r].question)] = req'[r].response
    ]_vars

\* the second request repeats the first one's question and is answered from the
\* cache with the summarizer's text
C1_Witness ==
    /\ req["r1"].pc = "responded"
    /\ req["r1"].id = 2
    /\ req["r1"].response.cached
    /\ req["r1"].response.answer = <<"o", "k">>
    /\ rag["r1"] = IdleRag
    /\ Len(dbLog) = 1

\* What the cap does do: the rows summarized, sent and cached are the first
\* maxResultRows rows of the recordset.
RowCapKeepsFirstRows ==
    \A r \in Requests :
        (/\ req[r].route = "ask"
         /\ req[r].pc = "responded"
         /\ ~req[r].response.cached
         /\ Len(eq[r].result.rows) > config.maxResultRows)
            => LET first == SubSeq(eq[r].result.rows, 1, config.maxResultRows)
                   key == cacheKey(req[r].question)
               IN  /\ an[r].rows = first
                   /\ req[r].response.rawData = first
                   /\ key \in DOMAIN cache => cache[key].rawData = first

\* C4: when the statement returns more rows than security.maxResultRows, the
\* rows summarized, sent and cached are the first maxResultRows of them, the
\* response carries a truncation flag, and its metadata keeps the number of rows
\* the statement returned.
C4_RowCapKeepsOriginalCount ==
    \A r \in Requests :
        (/\ req[r].route = "ask"
         /\ req[r].pc = "responded"
         /\ ~req[r].response.cached
         /\ Len(eq[r].result.rows) > config.maxResultRows)
            => LET first == SubSeq(eq[r].result.rows, 1, config.maxResultRows)
                   key == cacheKey(req[r].question)
               IN  /\ an[r].rows = first
                   /\ req[r].response.rawData = first
                   /\ key \in DOMAIN cache => cache[key].rawData = first
                   /\ "truncated" \in DOMAIN req[r].response
                                      \cup DOMAIN req[r].response.metadata
                   /\ req[r].response.metadata.resultCount = Len(eq[r].result.rows)

\* three rows came back under a cap of two: two rows are sent, and counted
C4_Witness ==
    /\ req["r1"].pc = "responded"
    /\ ~req["r1"].response.cached
    /\ Len(eq["r1"].result.rows) = config.maxResultRows + 1
    /\ Len(req["r1"].response.rawData) = config.maxResultRows
    /\ req["r1"].response.metadata.resultCount = config.maxResultRows

\* C9: once every attempt of the summarization has failed, generateAnalysis
\* has returned the fallback sentence with the number of rows, and the request
\* ends in a successful response that carries it.
C9_SummarizationNeverFailsRequest ==
    \A r \in Requests :
        (/\ req[r].route = "ask"
         /\ req[r].pc \in {"responded", "failed"}
         /\ an[r].pc = "done"
         /\ an[r].calls > 0
         /\ Len(an[r].errors) = an[r].calls)
            => /\ an[r].result = Answer(AnalysisFallback(Len(an[r].rows)))
               /\ req[r].pc = "responded"
               /\ req[r].response.kind = "ok"
               /\ req[r].response.answer = AnalysisFallback(Len(an[r].rows))

\* both attempts of the summarization failed, the fallback was returned, and the
\* request failed at the write to a full cache
C9_Witness ==
    /\ req["r1"].pc = "failed"
    /\ req["r1"].response.stage = "cache"
    /\ an["r1"].calls = 2
    /\ Len(an["r1"].errors) = 2
    /\ an["r1"].result = Answer(AnalysisFallback(MaxDbRows))

----------------------------------------------------------------------------
(* Properties of the session route *)

\* the last n pairs of a turn sequence
LastPairs(turns, n) ==
    IF Len(turns) > 2 * n THEN SubSeq(turns, Len(turns) - 2 * n + 1, Len(turns))
    ELSE turns

\* C5: every stored history holds at most maxHistoryLength (user, bot) pairs,
\* and the history a successful request stores is the history it read followed
\* by its own pair, less the oldest pair when that makes more than
\* maxHistoryLength: the most recent pairs, in their order.
C5_HistoryKeepsMostRecentPairs ==
    /\ [](\A key \in DOMAIN sessionCache :
             /\ Len(sessionCache[key]) <= 2 * MaxHistoryLength
             /\ \A i \in 1..Len(sessionCache[key]) :
                   sessionCache[key][i].role = (IF i % 2 = 1 THEN "user" ELSE "bot"))
    /\ [][\A r \in Requests :
            (req[r].route = "session" /\ req[r].pc = "analyzing"
                  /\ req'[r].pc = "responded")
               => sessionCache'[historyKey(req[r].sessionId)] =
                     LastPairs(req[r].chatHistory
                                  \o <<[role |-> "user", content |-> req[r].question],
                                       [role |-> "bot", content |-> req'[r].response.answer]>>,
                               MaxHistoryLength)
       ]_vars

\* a session that held maxHistoryLength pairs has taken one more: the pair of
\* the first request is gone, the new pair is the last
C5_Witness ==
    /\ req["r1"].pc = "responded"
    /\ req["r1"].route = "session"
    /\ historyKey(Session1) \in DOMAIN sessionCache
    /\ Len(sessionCache[historyKey(Session1)]) = 2 * MaxHistoryLength
    /\ sessionCache[historyKey(Session1)][1].content = <<"q", "2">>
    /\ sessionCache[historyKey(Session1)][2 * MaxHistoryLength].content =
          req["r1"].response.answer

\* C11: a call of createStandaloneQuestion with a non-empty history whose
\* completion call rejected, or lost the race against the 10 s timer, has
\* returned the question it was given; every finished call has returned a
\* question, and a request that is being rewritten goes on to retrieval with
\* it, never to the failed state.
C11_RewriteFailureFallsBack ==
    /\ [](\A r \in Requests :
            rw[r].pc = "done"
               => /\ rw[r].result.kind = "question"
                  /\ (rw[r].errors # <<>>
                        => /\ Len(rw[r].chatHistory) > 0
                           /\ rw[r].result.question = rw[r].question))
    /\ [][\A r \in Requests :
            (req[r].pc = "rewriting" /\ req'[r].pc # "rewriting")
               => /\ rw[r].pc = "done"
                  /\ req'[r].pc = "retrieving"
                  /\ req'[r].standaloneQuestion = rw[r].result.question
       ]_vars

\* the timer fired on a follow-up question of a session with a history, and the
\* request went on to retrieval with the question as it was asked
C11_Witness ==
    /\ req["r1"].pc = "retrieving"
    /\ rw["r1"].errors = <<<<"Rewrite timeout">>>>
    /\ Len(rw["r1"].chatHistory) > 0
    /\ req["r1"].standaloneQuestion = req["r1"].question
    /\ rag["r1"].question = req["r1"].question

----------------------------------------------------------------------------
(* Properties of validateQuestion *)

\* no call of the pipeline has been made for request r
NoCallMade(r) ==
    /\ rag[r] = IdleRag
    /\ gen[r] = IdleGen
    /\ eq[r] = IdleCall
    /\ an[r] = IdleAnalysis
    /\ rw[r] = IdleRewrite

\* C12: a request whose question is longer than security.maxQueryLength is
\* answered by validateQuestion with status 400, whatever the cache holds; the
\* step that answers it leaves the cache and the database log as they were,
\* and no retrieval, generation, execution or summarization call exists for
\* a rejected request, then or later.
C12_TooLongRejectedBeforePipeline ==
    /\ [][\A r \in Requests, body \in PipeBodies :
            (body.type = "string" /\ Len(body.question) > config.maxQueryLength
                  /\ PostAsk(r, body))
               => /\ req'[r].pc = "rejected"
                  /\ req'[r].response.kind = "invalid"
                  /\ req'[r].response.status = 400
                  /\ NoCallMade(r)'
                  /\ UNCHANGED <<cache, written, dbLog, sessionCache>>
       ]_vars
    /\ [](\A r \in Requests : req[r].pc = "rejected" => NoCallMade(r))

\* the padded question has been rejected as too long while the cache held the
\* answer stored under its key
C12_Witness ==
    /\ req["r1"].pc = "rejected"
    /\ req["r1"].question = PaddedQuestion
    /\ req["r1"].response.code = "QUESTION_TOO_LONG"
    /\ req["r1"].response.error =
          <<"Question is too long. Maximum ", "500", " characters allowed.">>
    /\ cacheKey(PaddedQuestion) \in DOMAIN cache

\* C13: a request whose question holds "drop", white space and "table", in
\* any letter case, is answered by validateQuestion with status 400 and the
\* code HARMFUL_CONTENT, whichever requests came before it and whatever they
\* held; no call of the pipeline is made for it and nothing is stored.
C13_HarmfulQuestionRejectedEveryTime ==
    [][\A r \in Requests, question \in HarmfulQuestions :
          PostAsk(r, StringBody(question))
             => /\ req'[r].pc = "rejected"
                /\ req'[r].response.status = 400
                /\ req'[r].response.code = "HARMFUL_CONTENT"
                /\ NoCallMade(r)'
                /\ UNCHANGED <<cache, written, dbLog, sessionCache>>
    ]_vars

\* "drop table employees" has been rejected as the third request of the process
C13_Witness ==
    /\ req["r1"].pc = "rejected"
    /\ req["r1"].id = MaxRequests
    /\ req["r1"].question = DropTableEmployees
    /\ req["r1"].response.code = "HARMFUL_CONTENT"
    /\ req["r1"].response.error = <<"Question contains potentially harmful content.">>

----------------------------------------------------------------------------
(* Properties of the handlers' control flow *)

\* the position of a handler in its sequence of stages
Rank(pc) ==
    CASE pc = "idle" -> 0
      [] pc = "rewriting" -> 1
      [] pc = "retrieving" -> 2
      [] pc = "generating" -> 3
      [] pc = "executing" -> 4
      [] pc = "analyzing" -> 5
      [] OTHER -> 6

\* the call the handler of r is waiting for has failed
StageFailed(r) ==
    \/ req[r].pc = "retrieving" /\ rag[r].pc = "done" /\ rag[r].result.kind = "failed"
    \/ req[r].pc = "generating" /\ gen[r].pc = "done" /\ gen[r].result.kind = "failed"
    \/ req[r].pc = "executing" /\ eq[r].pc = "done" /\ eq[r].result.kind # "rows"

\* C14: the handler's step on a failed stage ends the request as failed,
\* starts no call and writes neither store; a handler only moves forward
\* through its stages, and a stage's call is started only by the step that
\* enters the stage, so no stage is called twice for a request; a failed
\* request has no call of a later stage and has stored no cache entry.
C14_FailureShortCircuits ==
    /\ [][\A r \in Requests :
            /\ (req'[r] # req[r] /\ req'[r].id = req[r].id)
                  => /\ Rank(req'[r].pc) > Rank(req[r].pc)
                     /\ StageFailed(r)
                           => /\ req'[r].pc = "failed"
                              /\ rag'[r] = rag[r] /\ gen'[r] = gen[r]
                              /\ eq'[r] = eq[r] /\ an'[r] = an[r]
                              /\ UNCHANGED <<cache, sessionCache, written>>
                     /\ req'[r].pc = "failed"
                           => UNCHANGED <<cache, sessionCache, written>>
            /\ (rag[r].pc # "start" /\ rag'[r].pc = "start")
                  => /\ req'[r].id # req[r].id \/ req[r].pc = "rewriting"
                     /\ req'[r].pc = "retrieving"
            /\ (gen[r].pc # "start" /\ gen'[r].pc = "start")
                  => req[r].pc = "retrieving" /\ req'[r].pc = "generating"
            /\ (eq[r].pc # "start" /\ eq'[r].pc = "start")
                  => req[r].pc = "generating" /\ req'[r].pc = "executing"
            /\ (an[r].pc # "start" /\ an'[r].pc = "start")
                  => req[r].pc = "executing" /\ req'[r].pc = "analyzing"
       ]_vars
    /\ [](\A r \in Requests :
            req[r].pc = "failed"
               => /\ req[r].response.stage \in {"retrieve", "context"}
                        => gen[r] = IdleGen /\ eq[r] = IdleCall /\ an[r] = IdleAnalysis
                  /\ req[r].response.stage = "generate"
                        => eq[r] = IdleCall /\ an[r] = IdleAnalysis
                  /\ req[r].response.stage \in {"timeout", "execute"}
                        => an[r] = IdleAnalysis
                  /\ \A key \in DOMAIN written : written[key].requestId # req[r].id)

\* the second request failed at SQL generation after the first was answered
\* and cached: no statement was executed for it and the cache holds the first
\* request's entry only
C14_Witness ==
    /\ req["r1"].pc = "failed"
    /\ req["r1"].response.stage = "generate"
    /\ req["r1"].id = 2
    /\ gen["r1"].calls = config.maxRetries
    /\ eq["r1"] = IdleCall
    /\ Cardinality(DOMAIN cache) = 1
    /\ \A key \in DOMAIN written : written[key].requestId = 1

\* C15: the step that returns the response of a successful run leaves a turn
\* sequence in the session store that ends with the pair of the question as
\* asked and the answer returned and holds at most maxHistoryLength pairs,
\* and an entry with that answer in the response cache under the question's key.
C15_SuccessStoresTurnAndCachesResult ==
    [][\A r \in Requests :
          (req[r].pc = "analyzing" /\ req'[r].pc = "responded")
             => /\ \E key \in DOMAIN sessionCache' :
                      LET turns == sessionCache'[key]
                      IN  /\ Len(turns) >= 2
                          /\ Len(turns) <= 2 * MaxHistoryLength
                          /\ turns[Len(turns) - 1] =
                                [role |-> "user", content |-> req[r].question]
                          /\ turns[Len(turns)] =
                                [role |-> "bot", content |-> req'[r].response.answer]
                /\ cacheKey(req[r].question) \in DOMAIN cache'
                /\ cache'[cacheKey(req[r].question)].answer = req'[r].response.answer
    ]_vars

\* a request of the session variant has been answered and its pair stored;
\* the response cache holds nothing
C15_Witness ==
    /\ req["r1"].pc = "responded"
    /\ req["r1"].route = "session"
    /\ historyKey(req["r1"].sessionId) \in DOMAIN sessionCache
    /\ LET turns == sessionCache[historyKey(req["r1"].sessionId)]
       IN  /\ turns[Len(turns) - 1].content = req["r1"].question
           /\ turns[Len(turns)].content = req["r1"].response.answer
    /\ cache = <<>>

\* C16: a step that adds a session to the store or changes a stored turn
\* sequence is the last step of a successful run of a request of that session
\* (a sequence otherwise only disappears, when its time to live has passed);
\* the step that fails a request changes nothing in the store, and when a
\* request has failed its session either holds the turn sequence the request
\* read on arrival or has expired.
C16_SessionStoreChangesOnlyOnSuccess ==
    /\ [][
           /\ \A key \in DOMAIN sessionCache' :
               (key \notin DOMAIN sessionCache \/ sessionCache'[key] # sessionCache[key])
                  => \E r \in Requests :
                        /\ req[r].route = "session"
                        /\ req[r].pc = "analyzing"
                        /\ req'[r].pc = "responded"
                        /\ key = historyKey(req[r].sessionId)
           /\ \A r \in Requests :
                 (req[r].pc # "failed" /\ req'[r].pc = "failed") => UNCHANGED sessionCache
       ]_vars
    /\ [](\A r \in Requests :
            (req[r].route = "session" /\ req[r].pc = "failed")
               => storedHistory(historyKey(req[r].sessionId))
                     \in {req[r].chatHistory, <<>>})

\* a request of a session with stored turns has failed at SQL generation and
\* the session holds the turns it held when the request arrived
C16_Witness ==
    /\ req["r1"].route = "session"
    /\ req["r1"].pc = "failed"
    /\ req["r1"].response.stage = "generate"
    /\ req["r1"].sessionId = Session1
    /\ historyKey(Session1) \in DOMAIN sessionCache
    /\ sessionCache[historyKey(Session1)] = EarlierPairs(MaxHistoryLength)
    /\ req["r1"].chatHistory = EarlierPairs(MaxHistoryLength)

----------------------------------------------------------------------------
(* Properties of retrieveRelevantSchemas *)

\* C17: when collection.query resolves with no document, the call of
\* retrieveRelevantSchemas rejects with an error whose message ends with the
\* no-relevant-schemas sentence; the handler that awaited it fails the request
\* with that error, and generateSql is not called for the request.
C17_NoMatchFailsBeforeGeneration ==
    /\ [][\A r \in Requests :
            (rag[r].pc = "querying" /\ RagQueryReturns(r, <<>>))
               => rag'[r].result =
                     [kind |-> "failed",
                      error |-> <<"Could not retrieve relevant database schemas: ",
                                  NoRelevantSchemas>>]
       ]_vars
    /\ [](\A r \in Requests :
            (rag[r].pc = "done" /\ rag[r].result.kind = "failed"
                  /\ Has(rag[r].result.error, NoRelevantSchemas))
               => /\ gen[r] = IdleGen
                  /\ eq[r] = IdleCall
                  /\ req[r].pc \in {"retrieving", "failed"}
                  /\ req[r].pc = "failed"
                        => /\ req[r].response.stage = "retrieve"
                           /\ req[r].response.message = rag[r].result.error)

\* the index had no match for the question and the request has failed with
\* the retrieval error, no statement having been asked for
C17_Witness ==
    /\ req["r1"].pc = "failed"
    /\ req["r1"].response.message =
          <<"Could not retrieve relevant database schemas: ", NoRelevantSchemas>>
    /\ rag["r1"].queries = 1
    /\ gen["r1"].calls = 0

----------------------------------------------------------------------------
(* Progress *)

InFlight == {"rewriting", "retrieving", "generating", "executing", "analyzing"}
Ended == {"responded", "failed"}

\* a request that has its schema context is answered or failed in the end:
\* every call from there on is raced against a timer
GuardedStagesEnd ==
    \A r \in Requests :
        (req[r].pc \in {"generating", "executing", "analyzing"}) ~> (req[r].pc \in Ended)

\* C18: every request that validateQuestion has passed on is answered or
\* failed in the end, whether or not the services it calls ever return.
C18_EveryRequestEventuallyAnswered ==
    \A r \in Requests : (req[r].pc \in InFlight) ~> (req[r].pc \in Ended)

\* the embedding of a request's question has been asked for and the request
\* waits, with nothing in the process that would end the wait
C18_Witness ==
    /\ req["r1"].pc = "retrieving"
    /\ rag["r1"].pc = "embedding"
    /\ ~ ENABLED AskAfterRetrieve("r1")
    /\ ~ ENABLED AskQueryTimeout("r1")

----------------------------------------------------------------------------
(* Properties of the error responses *)

\* the names a kind tag could go by in a JSON body
TagNames == {"kind", "code", "type", "name"}

\* C19: the body sent for a failed request carries a kind tag and a message
\* and no stack trace.
C19_FailurePayloadTaggedAndClean ==
    \A r \in Requests :
        req[r].pc = "failed"
           => LET body == req[r].response.payload.body
              IN  /\ \E tag \in TagNames : tag \in DOMAIN body \/ tag \in DOMAIN body.error
                  /\ "message" \in DOMAIN body.error
                  /\ Len(body.error.message) > 0
                  /\ "stack" \notin DOMAIN body.error

\* with NODE_ENV=development a statement has failed in the database: the body
\* holds the driver's own message and the stack of the error, and no tag
C19_Witness ==
    /\ req["r1"].pc = "failed"
    /\ req["r1"].response.stage = "execute"
    /\ config.nodeEnv = "development"
    /\ DOMAIN req["r1"].response.payload.body = {"error"}
    /\ DOMAIN req["r1"].response.payload.body.error = {"message", "stack"}
    /\ req["r1"].response.payload.status = 500

----------------------------------------------------------------------------
(* Properties of the executor's failures *)

\* C20: when a request has failed because its statement could not be
\* executed (the connection or the statement failed, the gate having passed
\* it), executeQuery had tried more than once.
C20_FailedExecutionWasRetried ==
    \A r \in Requests :
        (req[r].pc = "failed" /\ req[r].response.stage = "execute"
              /\ eq[r].result.kind = "failed")
           => eq[r].attempts >= 2

\* the statement of a request was sent once, the driver reported an invalid
\* object name, and the request has failed
C20_Witness ==
    /\ req["r1"].pc = "failed"
    /\ req["r1"].response.stage = "execute"
    /\ eq["r1"].result =
          [kind |-> "failed",
           error |-> <<"Invalid table name in the generated query.",
                       " Technical details: ", "raw table">>]
    /\ eq["r1"].attempts = 1
    /\ Len(dbLog) = 1


----------------------------------------------------------------------------
(* generateSql: the schema context that reaches the prompt *)

\* what lines 24-28 are to make of the schema context the caller passed
LimitedTo(given, budget) ==
    IF Len(given) > budget
    THEN [i \in 1..(budget + Len(TruncatedMarker)) |->
             IF i <= budget THEN given[i] ELSE TruncatedMarker[i - budget]]
    ELSE given

\* C24: in generateSql a schema context longer than 10000 characters is
\* replaced, before the prompt is built, by its first 10000 characters followed
\* by the truncation marker, a schema context within the budget stays as it is,
\* and every prompt sent carries that schema context.
C24_SchemaContextLimitedBeforePrompt ==
    \A r \in Requests :
        gen[r].pc # "idle" =>
            /\ gen[r].schemaContext = LimitedTo(req[r].schemaContext, 10000)
            /\ gen[r].calls > 0 => gen[r].prompt.schemaContext = gen[r].schemaContext

\* a prompt has been sent for a schema context that was over the budget
C24_Witness ==
    \E r \in Requests :
        /\ gen[r].calls > 0
        /\ Len(req[r].schemaContext) > 10000
        /\ Len(gen[r].prompt.schemaContext) = 10000 + Len(TruncatedMarker)
        /\ gen[r].prompt.schemaContext[10000] = req[r].schemaContext[10000]


----------------------------------------------------------------------------
(* the order of the stages within one request *)

\* the question the stages after rewriting work on
WorkingQuestion(r) ==
    IF req[r].route = "session" THEN rw[r].result.question ELSE req[r].question

\* the rows the execution stage hands on: the cached route caps them
ExecutionOutput(r) ==
    IF req[r].route = "session" THEN eq[r].result.rows ELSE capRows(eq[r].result.rows)

\* C21: within one request the stages run in the order rewriting, schema
\* retrieval, SQL generation, query execution, summarization: a stage has been
\* started only if the stage before it has completed with a result, and it was
\* started on that result (retrieval on the rewritten question, generation on
\* the retrieved schema context, execution on the generated statement,
\* summarization on the rows of the execution).
C21_StagesRunInOrderOnPreviousOutput ==
    \A r \in Requests :
        req[r].pc \notin {"idle", "rejected"} =>
            /\ rag[r].pc # "idle" =>
                  /\ req[r].route = "session" => rw[r].pc = "done"
                  /\ rag[r].question = WorkingQuestion(r)
            /\ gen[r].pc # "idle" =>
                  /\ rag[r].pc = "done" /\ rag[r].result.kind = "context"
                  /\ gen[r].schemaContext = LimitedTo(rag[r].result.schemaContext, 10000)
                  /\ gen[r].question = WorkingQuestion(r)
            /\ eq[r].pc # "idle" =>
                  /\ gen[r].pc = "done" /\ gen[r].result.kind = "ok"
                  /\ eq[r].query = gen[r].result.sqlQuery
            /\ an[r].pc # "idle" =>
                  /\ eq[r].pc = "done" /\ eq[r].result.kind = "rows"
                  /\ an[r].rows = ExecutionOutput(r)
                  /\ an[r].question = WorkingQuestion(r)

\* a session request whose five stages have all run, on a rewritten question
\* that differs from the question asked
C21_Witness ==
    \E r \in Requests :
        /\ req[r].route = "session" /\ req[r].pc = "responded"
        /\ an[r].pc = "done" /\ Len(an[r].rows) > 0
        /\ rw[r].calls > 0
        /\ rw[r].result.question # req[r].question


----------------------------------------------------------------------------
(* generateSql: the waits between attempts *)

\* C22: the delay generateSql waits after a failed attempt n grows
\* exponentially with n: each wait is longer than the one before it, and any
\* three consecutive waits are in geometric progression.
C22_RetryDelayGrowsExponentially ==
    \A r \in Requests :
        \A n \in 1..Len(gen[r].delays) :
            /\ n + 1 <= Len(gen[r].delays) => gen[r].delays[n + 1] > gen[r].delays[n]
            /\ n + 2 <= Len(gen[r].delays) =>
                  gen[r].delays[n] * gen[r].delays[n + 2] =
                      gen[r].delays[n + 1] * gen[r].delays[n + 1]

\* generateSql has waited three times
C22_Witness ==
    \E r \in Requests : Len(gen[r].delays) >= 3


----------------------------------------------------------------------------
(* generateSql: the unanswerable sentinel *)

SentinelOpens == {<<>>, fence, fenceSql, fence \o <<"\n">>, fenceSql \o <<"\n">>}
SentinelCloses == {<<>>, fence, <<"\n">> \o fence}

\* the output is the word CANNOT_ANSWER in some letter case, bare or with code
\* fences around it
IsSentinelOutput(text) ==
    LET t == trim(text)
    IN  \E open \in SentinelOpens, close \in SentinelCloses :
            /\ (open = <<>>) = (close = <<>>)
            /\ Len(t) = Len(open) + Len(CANNOT_ANSWER) + Len(close)
            /\ startsWith(t, open)
            /\ endsWith(t, close)
            /\ toUpperCase(SubSeq(t, Len(open) + 1, Len(open) + Len(CANNOT_ANSWER)))
                   = CANNOT_ANSWER

MalformedReason == "Generated query is not a SELECT statement: "

\* C23: when the model's output is the unanswerable sentinel (CANNOT_ANSWER in
\* any letter case, with or without code fences), the attempt fails with a
\* reason other than the malformed-output reason, and the sentinel is not
\* returned as a query.
C23_SentinelFailsWithItsOwnReason ==
    \A r \in Requests :
        (gen[r].calls = 1 /\ gen[r].pc # "awaiting" /\ IsSentinelOutput(gen[r].text)) =>
            /\ gen[r].result.kind # "ok"
            /\ Len(gen[r].errors) = 1
            /\ gen[r].errors[1].message[1] # MalformedReason

\* the bare sentinel in lower case has failed an attempt
C23_Witness ==
    \E r \in Requests :
        /\ gen[r].text = lower(CANNOT_ANSWER)
        /\ Len(gen[r].errors) = 1
        /\ gen[r].errors[1].message =
              <<"This question cannot be answered using the available database schema.">>


----------------------------------------------------------------------------
(* truncateDataForAnalysis: the rows kept for the summarization prompt *)

\* the number of rows kept of an input whose first 50 rows (or all of them)
\* serialize to more than 50000 characters: as many as fit at the average row
\* size, at least 10, at most what there is
RowsThatFit(first) ==
    LET fit == CHOOSE m \in 0..Len(first) :
                   /\ m * JsonLength(first) <= 50000 * Len(first)
                   /\ (m + 1) * JsonLength(first) > 50000 * Len(first)
        atLeast == IF fit < 10 THEN 10 ELSE fit
    IN  IF atLeast < Len(first) THEN atLeast ELSE Len(first)

\* C25: truncateDataForAnalysis returns a prefix of its input of at most 50
\* rows; when the first 50 rows serialize to more than 50000 characters the
\* prefix is as long as fits at the average serialized row size, but not
\* shorter than 10 rows (or the input, if that is shorter); wasTruncated is
\* true exactly when the prefix is shorter than the input, and originalCount
\* is the input length.
C25_TruncationKeepsBoundedPrefix ==
    \A r \in Requests :
        (an[r].pc \notin {"idle", "start"} /\ Len(an[r].rows) > 0) =>
            LET input == an[r].rows
                t == truncateDataForAnalysis(input)
                first == SubSeq(input, 1, IF Len(input) < 50 THEN Len(input) ELSE 50)
            IN  /\ an[r].truncated = t.truncated
                /\ an[r].originalCount = t.originalCount
                /\ Len(t.truncated) <= 50
                /\ Len(t.truncated) <= Len(input)
                /\ t.truncated = SubSeq(input, 1, Len(t.truncated))
                /\ JsonLength(first) <= 50000 => t.truncated = first
                /\ JsonLength(first) > 50000 =>
                      /\ Len(t.truncated) = RowsThatFit(first)
                      /\ Len(t.truncated) >= (IF Len(input) < 10 THEN Len(input) ELSE 10)
                /\ t.wasTruncated = (Len(t.truncated) < Len(input))
                /\ t.originalCount = Len(input)

\* an input of more than 10 rows of which not even one fits the size budget
C25_Witness ==
    \E r \in Requests :
        /\ an[r].pc \notin {"idle", "start"}
        /\ Len(an[r].rows) > 10
        /\ JsonLength(SubSeq(an[r].rows, 1, 1)) > 50000
        /\ Len(an[r].truncated) = 10

\* an input shortened to the rows that fit at the average row size
C25_WitnessAverage ==
    \E r \in Requests :
        /\ an[r].pc \notin {"idle", "start"}
        /\ Len(an[r].rows) > 50
        /\ Len(an[r].truncated) > 10
        /\ Len(an[r].truncated) < 50


----------------------------------------------------------------------------
(* the preview note of the summarization prompt *)

\* C26: whenever the rows in the summarization prompt are fewer than the rows
\* the query returned, the prompt carries the note that the data is a preview
\* of a larger total, and the total it states is the number of rows returned.
C26_PartialDataIsAnnounced ==
    \A r \in Requests :
        (/\ req[r].pc \in {"analyzing", "responded"}
         /\ an[r].calls > 0
         /\ eq[r].pc = "done" /\ eq[r].result.kind = "rows"
         /\ Len(an[r].prompt.rows) < Len(eq[r].result.rows)) =>
            /\ an[r].prompt.preview
            /\ an[r].prompt.total = Len(eq[r].result.rows)

\* a prompt has been sent with fewer rows than the statement returned
C26_Witness ==
    \E r \in Requests :
        /\ req[r].pc = "analyzing"
        /\ an[r].calls > 0
        /\ eq[r].result.kind = "rows"
        /\ Len(an[r].prompt.rows) = config.maxResultRows
        /\ Len(eq[r].result.rows) > config.maxResultRows


----------------------------------------------------------------------------
(* the number of attempts of the two retry loops *)

\* C27: for every configuration generateAnalysis makes fewer completion
\* attempts at most than generateSql, whose loop runs up to
\* config.gemini.maxRetries attempts: the calls of one generateAnalysis never
\* reach that number.
C27_AnalysisTriesLessThanGeneration ==
    \A r \in Requests : an[r].calls < config.maxRetries

\* generateAnalysis has given up after two calls where generateSql may make three
C27_Witness ==
    \E r \in Requests :
        /\ config.maxRetries = 3
        /\ an[r].pc = "done"
        /\ an[r].calls = 2
        /\ Len(an[r].errors) = 2


----------------------------------------------------------------------------
(* the response cache at its maximum number of entries *)

\* C28: when the response cache holds cache.maxKeys entries and the pipeline
\* of a new question has produced its answer, the handler's last step evicts an
\* entry, stores the new one and sends the successful response.
C28_FullCacheEvictsAndStores ==
    [][
        \A r \in Requests :
            (/\ req[r].route = "ask" /\ req[r].pc = "analyzing"
             /\ req'[r].pc # "analyzing"
             /\ an[r].pc = "done" /\ an[r].result.kind = "answer"
             /\ Cardinality(DOMAIN cache) >= config.maxKeys
             /\ cacheKey(req[r].question) \notin DOMAIN cache) =>
                /\ req'[r].pc = "responded"
                /\ req'[r].response.kind = "ok"
                /\ cacheKey(req[r].question) \in DOMAIN cache'
                /\ Cardinality(DOMAIN cache') <= config.maxKeys
                /\ DOMAIN cache \ DOMAIN cache' # {}
    ]_vars

\* the cache is full and the answer to a question it does not hold is ready
C28_Witness ==
    \E r \in Requests :
        /\ req[r].route = "ask" /\ req[r].pc = "analyzing"
        /\ an[r].pc = "done" /\ an[r].result.kind = "answer"
        /\ Cardinality(DOMAIN cache) >= config.maxKeys
        /\ cacheKey(req[r].question) \notin DOMAIN cache


----------------------------------------------------------------------------
(* the cache key *)

\* a question after lower-casing and trimming
Folded(question) == trim(toLowerCase(question))

\* C29: the cache entry a question is served from depends on the question
\* after lower-casing and trimming, and on nothing else: two questions that are
\* equal after lower-casing and trimming have the same cache key, and of two
\* requests, the second is answered from the entry the first one wrote only if
\* their questions are equal after lower-casing and trimming.
C29_CacheEntryPerFoldedQuestion ==
    \A x \in Requests : \A y \in Requests \ {x} :
        (req[x].route = "ask" /\ req[y].route = "ask") =>
            /\ Folded(req[x].question) = Folded(req[y].question) =>
                  cacheKey(req[x].question) = cacheKey(req[y].question)
            /\ (/\ served = 2
                /\ req[x].pc = "responded" /\ ~req[x].response.cached
                /\ req[y].pc = "responded" /\ req[y].response.cached) =>
                  Folded(req[x].question) = Folded(req[y].question)

\* the second of two requests was answered from the entry of the first, whose
\* question differs from its own in letter case only
C29_Witness ==
    \E x \in Requests : \E y \in Requests \ {x} :
        /\ served = 2
        /\ req[x].pc = "responded" /\ ~req[x].response.cached
        /\ req[y].pc = "responded" /\ req[y].response.cached
        /\ req[x].question # req[y].question
        /\ Folded(req[x].question) = Folded(req[y].question)

\* on questions without a lone surrogate the key tells the folded questions apart
KeyInjectiveOnWellFormed ==
    \A p \in KeyQuestions \cup PipeQuestions, q \in KeyQuestions \cup PipeQuestions :
        (/\ \A i \in 1..Len(p) : p[i] \notin LoneSurrogates
         /\ \A i \in 1..Len(q) : q[i] \notin LoneSurrogates) =>
            (cacheKey(p) = cacheKey(q)) = (Folded(p) = Folded(q))


----------------------------------------------------------------------------
(* the deadline on query execution *)

\* C30: query execution is subject to a client-side deadline besides the
\* driver's request timeout: while a request waits for executeQuery, the
\* handler's own timer can fire and end the execution stage with a timeout
\* error.
C30_ExecutionHasClientDeadline ==
    \A r \in Requests :
        (req[r].pc = "executing" /\ eq[r].pc # "done") => ENABLED AskQueryTimeout(r)

\* a request of the session route waits for the database
C30_Witness ==
    \E r \in Requests :
        req[r].route = "session" /\ req[r].pc = "executing" /\ eq[r].pc = "query"

\* once the handler's timer has failed a request, the request stays failed with
\* the timeout error, whatever executeQuery does later: nothing is summarized,
\* cached or sent for it
LateResultIsDropped ==
    [][
        \A r \in Requests :
            (/\ req[r].pc = "failed"
             /\ req[r].response.message = <<"Query execution timeout">>
             /\ req'[r].id = req[r].id) =>
                /\ req'[r] = req[r]
                /\ an'[r].pc = "idle"
                /\ cacheKey(req[r].question) \in DOMAIN cache' =>
                      cacheKey(req[r].question) \in DOMAIN cache
    ]_vars

\* the rows have arrived for a request that the timer had already failed
LateResultArrived ==
    \E r \in Requests :
        /\ req[r].pc = "failed"
        /\ req[r].response.message = <<"Query execution timeout">>
        /\ eq[r].pc = "done" /\ eq[r].result.kind = "rows"


----------------------------------------------------------------------------
(* executeQuery: the error thrown for a failure of the driver *)

\* the messages of the kinds of execution failure
TaxonomyMessages ==
    {"Query execution timed out. Please try a simpler query.",
     "Database authentication failed.",
     "Database connection was reset. Please try again.",
     "Database server is not accessible.",
     "Invalid column name in the generated query.",
     "Invalid table name in the generated query.",
     "Error executing database query."}

\* C31: the error executeQuery throws for a failed execution carries the
\* message of one of the kinds timeout, authentication, connectivity, invalid
\* identifier or the generic kind, and it does not contain the text of the
\* driver's own error.
C31_ExecutionErrorHidesDriverText ==
    \A c \in Requests :
        eq[c].result.kind = "failed" =>
            /\ eq[c].result.error[1] \in TaxonomyMessages
            /\ \A err \in DriverErrors \cup {ConnectError} :
                  ~Has(eq[c].result.error, err.message)

\* a statement has timed out in the driver and executeQuery has thrown
C31_Witness ==
    \E c \in Requests :
        /\ eq[c].result.kind = "failed"
        /\ eq[c].result.error[1] = "Query execution timed out. Please try a simpler query."


----------------------------------------------------------------------------
(* retrieveRelevantSchemas: the kinds of error and the collection handle *)

StoreUnreachable ==
    <<"ChromaDB is not running. Please start ChromaDB: docker run -d -p 8000:8000 chromadb/chroma">>
CollectionNotBuilt ==
    <<"Schema collection does not exist. Please run the indexing script first: npm run index">>

\* C32: a failure to reach the vector store and a missing collection are
\* reported as two different errors, each for its own cause only: when the
\* embedding call fails or gives no embedding, or the query matches nothing,
\* the error thrown is neither of the two.
C32_StoreErrorsOnlyForStoreCauses ==
    [][
        \A r \in Requests :
            (/\ rag'[r].pc = "done"
             /\ \/ rag[r].pc = "embedding"
                \/ rag[r].pc = "querying" /\ RagQueryReturns(r, <<>>)
             /\ rag'[r].result.kind = "failed") =>
                /\ rag'[r].result.error # StoreUnreachable
                /\ rag'[r].result.error # CollectionNotBuilt
    ]_vars

\* a call has failed at initializeConnection and was told that the store is
\* not running
C32_Witness ==
    \E r \in Requests :
        /\ rag[r].pc = "done" /\ rag[r].result.kind = "failed"
        /\ rag[r].embeds = 0
        /\ rag[r].result.error = StoreUnreachable

\* C33: the collection handle is cached after the first success: once an
\* initializeConnection has succeeded, a retrieveRelevantSchemas call that
\* starts does not invoke getOrCreateCollection, whatever became of the
\* initializations that were under way at the time of that success.
C33_HandleCachedAfterFirstSuccess ==
    [][
        \A r \in Requests :
            (collection = "handle" /\ rag[r].pc = "start") => rag'[r].pc # "connecting"
    ]_vars

\* a call starts while the handle is stored and uses it
C33_Witness ==
    \E r \in Requests :
        /\ collection = "handle"
        /\ rag[r].pc = "embedding"
        /\ rag[r].creates = 0


----------------------------------------------------------------------------
(* concurrent requests on one session *)

\* the turns alternate, user first
WellFormedTurns(turns) ==
    /\ Len(turns) % 2 = 0
    /\ \A i \in 1..Len(turns) : turns[i].role = (IF i % 2 = 1 THEN "user" ELSE "bot")

\* C34: for every interleaving of requests on the same session the stored
\* turn sequence has even length and alternates user and bot turns, and every
\* write of it is the write of one request that ends successfully: the
\* sequence that request read from the store when it arrived, followed by its
\* own question and answer (cut to the maximum number of pairs).
C34_SessionHistoryNeverCorrupted ==
    /\ [](\A key \in DOMAIN sessionCache : WellFormedTurns(sessionCache[key]))
    /\ [][
            /\ \A r \in Requests :
                  (req'[r].id # req[r].id /\ req'[r].route = "session") =>
                      req'[r].chatHistory =
                          storedHistory(historyKey(req'[r].sessionId))
            /\ \A r \in Requests :
                  (req'[r].id = req[r].id /\ req'[r].pc # "responded") =>
                      req'[r].chatHistory = req[r].chatHistory
            /\ sessionCache' # sessionCache =>
                  \E r \in Requests :
                      /\ req[r].pc = "analyzing" /\ req'[r].pc = "responded"
                      /\ sessionCache' =
                            [k \in DOMAIN sessionCache
                                      \cup {historyKey(req[r].sessionId)} |->
                                IF k = historyKey(req[r].sessionId)
                                THEN trimHistory(req[r].chatHistory \o
                                        <<[role |-> "user", content |-> req[r].question],
                                          [role |-> "bot",
                                           content |-> req'[r].response.answer]>>)
                                ELSE sessionCache[k]]
       ]_vars

\* two requests of one session have both ended successfully after reading the
\* same stored history: the store holds the pair of one of them only
C34_Witness ==
    /\ req["r1"].pc = "responded" /\ req["r2"].pc = "responded"
    /\ req["r1"].sessionId = Session1 /\ req["r2"].sessionId = Session1
    /\ req["r1"].question # req["r2"].question
    /\ Len(req["r1"].chatHistory) = 2 /\ Len(req["r2"].chatHistory) = 2
    /\ Len(sessionCache[historyKey(Session1)]) = 2


----------------------------------------------------------------------------
(* the session identifier of a request *)

\* the identifiers known before a request arrives: those of stored sessions
\* and of earlier requests
KnownSessionKeys ==
    DOMAIN sessionCache \cup {historyKey(req[x].sessionId) : x \in Requests}

\* C35: a request without sessionId is given a fresh identifier before the
\* session store is read, a request with a sessionId keeps it; the store is
\* read and written under that identifier, and the successful response
\* returns it.
C35_OneSessionIdPerRequest ==
    [][
        /\ \A r \in Requests, sessionId \in {<<>>} \cup SessionIds :
              (/\ req'[r].id # req[r].id
               /\ \E question \in SessQuestions : SessArrive(r, question, sessionId)) =>
                  /\ sessionId = <<>> =>
                        /\ req'[r].sessionId # <<>>
                        /\ historyKey(req'[r].sessionId) \notin KnownSessionKeys
                  /\ sessionId # <<>> => req'[r].sessionId = sessionId
                  /\ req'[r].chatHistory = storedHistory(historyKey(req'[r].sessionId))
        /\ \A r \in Requests :
              req'[r].id = req[r].id =>
                  /\ req'[r].sessionId = req[r].sessionId
                  /\ (req[r].pc = "analyzing" /\ req'[r].pc = "responded") =>
                        /\ req'[r].response.sessionId = req[r].sessionId
                        /\ \A k \in DOMAIN sessionCache' :
                              k # historyKey(req[r].sessionId) =>
                                  /\ k \in DOMAIN sessionCache
                                  /\ sessionCache'[k] = sessionCache[k]
                        /\ historyKey(req[r].sessionId) \in DOMAIN sessionCache'
    ]_vars

\* a request that came without sessionId has been answered with the identifier
\* it was given, and its turn is stored under it
C35_Witness ==
    \E r \in Requests :
        /\ req[r].pc = "responded"
        /\ req[r].sessionId = <<"uuid-", ToString(req[r].id)>>
        /\ req[r].response.sessionId = req[r].sessionId
        /\ historyKey(req[r].sessionId) \in DOMAIN sessionCache


\* ---------------------------------------------------------------------------
\* C36: in every request that reaches the retrieval stage, the question passed
\* to retrieveRelevantSchemas is non-empty after trimming, whether it is the
\* validated original question or the standalone question of the rewriter.
C36_RetrievalQuestionNeverBlank ==
    \A r \in Requests :
        rag[r].pc # "idle" => Len(trim(rag[r].question)) > 0

\* a request with history whose rewrite came back blank has reached retrieval
C36_BlankStandaloneReachesRetrieval ==
    \E r \in Requests :
        /\ req[r].route = "session"
        /\ req[r].pc = "retrieving"
        /\ Len(req[r].chatHistory) > 0
        /\ Len(trim(req[r].question)) > 0
        /\ rag[r].pc = "start"
        /\ Len(rag[r].question) = 0


\* ---------------------------------------------------------------------------
\* C37: under every interleaving of concurrent requests, each entry of the
\* response cache holds the answer, generatedSql, rawData and metadata of one
\* run that succeeded for a question with that key; a run that fails creates
\* and changes no entry, and a cache hit leaves the cache as it was.
EntryOf(payload) ==
    [answer |-> payload.answer, generatedSql |-> payload.generatedSql,
     rawData |-> payload.rawData, metadata |-> payload.metadata]

\* request r completes its run in this step; the entry is what the run made
StoresOwnRun(r) ==
    /\ req[r].route = "ask" /\ req[r].pc = "analyzing"
    /\ an[r].result.kind = "answer"
    /\ req'[r].pc = "responded"
    /\ req'[r].response.kind = "ok" /\ ~req'[r].response.cached
    /\ req'[r].response.answer = an[r].result.answer
    /\ req'[r].response.generatedSql = gen[r].result.sqlQuery
    /\ req'[r].response.rawData = capRows(eq[r].result.rows)
    /\ LET key == cacheKey(req[r].question)
       IN  /\ DOMAIN cache' = DOMAIN cache \cup {key}
           /\ cache'[key] = EntryOf(req'[r].response)
           /\ \A k \in DOMAIN cache \ {key} : cache'[k] = cache[k]

EntryExpires ==
    \E key \in DOMAIN cache :
        /\ DOMAIN cache' = DOMAIN cache \ {key}
        /\ \A k \in DOMAIN cache' : cache'[k] = cache[k]

ConnectsInFlight ==
    (IF poolPromise = "pending" THEN 1 ELSE 0)
        + (IF \E c \in Requests : eq[c].pc = "awaitLost" THEN 1 ELSE 0)

C38_AtMostOneConnectInFlight ==
    /\ [](ConnectsInFlight <= 1)
    /\ [][\A c \in Requests :
            (poolPromise = "pending" /\ eq[c].pc = "start" /\ eq'[c].askedPool)
                => (poolPromise' = "pending" /\ eq'[c].pc = "awaitPool")]_vars

\* a replaced pool's 'error' event has cleared the promise of a pending connect,
\* and the next call has started a second one
C38_TwoConnectsInFlight ==
    /\ stalePools
    /\ poolPromise = "pending"
    /\ eq["r1"].pc = "awaitLost"
    /\ eq["r2"].pc = "awaitPool"

\* ---------------------------------------------------------------------------
\* C39: a failed connect attempt is not memoized: every call waiting on it
\* fails, the stored promise is cleared, the next call starts a new attempt,
\* and that attempt, when it succeeds, serves its callers and later calls.
FailsByConnect(c) ==
    /\ eq[c].pc \in {"awaitPool", "awaitLost"}
    /\ eq'[c].pc = "done"

C39_FailedConnectIsNotMemoized ==
    /\ [](poolPromise \in {"null", "pending", "resolved"})
    /\ [][/\ (\E c \in Requests : FailsByConnect(c)) =>
                /\ poolPromise' = "null"
                /\ \A c \in Requests :
                      eq[c].pc = eq[CHOOSE w \in Requests : FailsByConnect(w)].pc
                          => /\ FailsByConnect(c)
                             /\ eq'[c].result.kind = "failed"
                             /\ eq'[c].result.error = ExecutionError(ConnectError)
          /\ \A c \in Requests :
                (eq[c].pc = "start" /\ eq'[c].askedPool) =>
                    CASE poolPromise = "null" ->
                            poolPromise' = "pending" /\ eq'[c].pc = "awaitPool"
                      [] poolPromise = "pending" ->
                            poolPromise' = "pending" /\ eq'[c].pc = "awaitPool"
                      [] OTHER ->
                            poolPromise' = poolPromise /\ eq'[c].pc = "havePool"
          /\ (poolPromise = "pending" /\ poolPromise' = "resolved") =>
                \A c \in Requests : eq[c].pc = "awaitPool" => eq'[c].pc = "havePool"]_vars

\* r2's call failed with the connect attempt; r1 called next, its attempt
\* succeeded and its statement was sent; a later call of r1 has the same pool
C39_Witness ==
    /\ poolPromise = "resolved" /\ ~stalePools
    /\ served = 3
    /\ eq["r2"].pc = "done" /\ eq["r2"].result.kind = "failed"
    /\ eq["r2"].result.error = ExecutionError(ConnectError)
    /\ Len(dbLog) = 1
    /\ eq["r1"].pc = "havePool"


\* ---------------------------------------------------------------------------
\* C40: every request that passes validation ends in exactly one outcome, one
\* success response or one hand-off to the error handler, never both and
\* never two of the same, whichever stages succeed, fail or time out.
OutcomeMatchesEnd ==
    \A r \in Requests :
        /\ req[r].pc = "responded" => req[r].response.kind = "ok"
        /\ req[r].pc = "failed" => req[r].response.kind = "error"
        /\ req[r].pc \in InFlight => req[r].response.kind = "none"

\* a request that has ended stays as it ended until the next one arrives
OutcomeIsFinal ==
    \A r \in Requests :
        (req[r].pc \in Ended /\ req'[r] # req[r]) =>
            /\ req'[r].id > req[r].id
            /\ served' = served + 1

OneOutcomeAtMost == [](OutcomeMatchesEnd) /\ [][OutcomeIsFinal]_vars

====
